---- MODULE Spec2Model ----
(***************************************************************************)
(* cargo-machete: the per-package unused-dependency detector               *)
(* (src/src/search_unused.rs, find_unused) and the top-level coordinator   *)
(* (src/src/main.rs, run_machete / main).                                  *)
(*                                                                         *)
(* Strings are sequences of one-character strings, so that str::replace,   *)
(* str::starts_with, str::contains and the byte-wise ordering of String    *)
(* (the iteration order of a BTreeMap<String, _>) are computed, not        *)
(* assumed.                                                                *)
(***************************************************************************)
EXTENDS Integers, Sequences, FiniteSets, TLC

\* An absent name (Option<String>::None) and an absent list.
NoName == << >>

(***************************************************************************)
(* Bounds of the model.                                                    *)
(***************************************************************************)
MaxDeps == 2
MaxFiles == 2

(***************************************************************************)
(* Strings.                                                                *)
(***************************************************************************)
Ascii ==
    << "(", ")", "-", "0", "1", "2", "3", "4", "5", "6", "7", "8", "9",
       "A", "B", "C", "D", "E", "F", "G", "H", "I", "J", "K", "L", "M",
       "N", "O", "P", "Q", "R", "S", "T", "U", "V", "W", "X", "Y", "Z",
       "_",
       "a", "b", "c", "d", "e", "f", "g", "h", "i", "j", "k", "l", "m",
       "n", "o", "p", "q", "r", "s", "t", "u", "v", "w", "x", "y", "z" >>

CharCode(c) == CHOOSE i \in DOMAIN Ascii : Ascii[i] = c

UpperCase == << "A", "B", "C", "D", "E", "F", "G", "H", "I", "J", "K", "L", "M",
                "N", "O", "P", "Q", "R", "S", "T", "U", "V", "W", "X", "Y", "Z" >>
LowerCase == << "a", "b", "c", "d", "e", "f", "g", "h", "i", "j", "k", "l", "m",
                "n", "o", "p", "q", "r", "s", "t", "u", "v", "w", "x", "y", "z" >>

Range(s) == { s[i] : i \in DOMAIN s }

\* <String as Ord>::cmp == Less: byte-wise lexicographic order.
StrLess(a, b) ==
    \/ \E i \in 1..Len(a) :
          /\ i <= Len(b)
          /\ \A j \in 1..(i - 1) : a[j] = b[j]
          /\ CharCode(a[i]) < CharCode(b[i])
    \/ /\ Len(a) < Len(b)
       /\ \A j \in 1..Len(a) : a[j] = b[j]

\* str::replace(from, to) for a one-character pattern and replacement.
replace(s, from, to) == [i \in 1..Len(s) |-> IF s[i] = from THEN to ELSE s[i]]

\* str::contains(char)
contains(s, c) == \E i \in 1..Len(s) : s[i] = c

\* str::starts_with(prefix)
starts_with(s, prefix) ==
    /\ Len(prefix) <= Len(s)
    /\ \A i \in 1..Len(prefix) : s[i] = prefix[i]

\* str::ends_with(suffix)
ends_with(s, suffix) ==
    /\ Len(suffix) <= Len(s)
    /\ \A i \in 1..Len(suffix) : s[Len(s) - Len(suffix) + i] = suffix[i]

\* The (?i) flag of the patterns: letters are compared after case folding.
to_lowercase(s) ==
    [i \in 1..Len(s) |->
        IF \E u \in DOMAIN UpperCase : UpperCase[u] = s[i]
        THEN LowerCase[CHOOSE u \in DOMAIN UpperCase : UpperCase[u] = s[i]]
        ELSE s[i]]

(***************************************************************************)
(* The names used by the inputs.                                           *)
(***************************************************************************)
log == << "l", "o", "g" >>
tracing == << "t", "r", "a", "c", "i", "n", "g" >>
log_once == << "l", "o", "g", "-", "o", "n", "c", "e" >>
wasm32_wasi == << "w", "a", "s", "m", "3", "2", "-", "w", "a", "s", "i" >>
cfg_prefix == << "c", "f", "g", "(" >>

(***************************************************************************)
(* The registry as cargo sees it: package id -> package name and the name  *)
(* of its library target.  Two versions of `log` are two packages with the *)
(* same name.                                                              *)
(***************************************************************************)
PackageIds == { "log 0.4", "log 0.3", "log-once 0.4" }

PkgName(id) ==
    CASE id = "log 0.4" -> log
      [] id = "log 0.3" -> log
      [] id = "log-once 0.4" -> log_once

LibName(id) == replace(PkgName(id), "-", "_")

\* The keys under which a manifest of the inputs may declare a package:
\* its own name, or a rename (`tracing = { package = "log" }`).
KeysFor(id) ==
    CASE id = "log 0.4" -> { log, tracing }
      [] id = "log 0.3" -> { log, tracing }
      [] id = "log-once 0.4" -> { log_once }

Kinds == { "normal", "dev", "build" }

(***************************************************************************)
(* A dependency declaration of a manifest: `key = { package = name(pkg) }` *)
(* in the table [dependencies], [dev-dependencies] or [build-dependencies] *)
(* (kind), at top level (target = NoName) or under [target.<target>.*].      *)
(***************************************************************************)
Dep(k, p, kd, t) == [key |-> k, pkg |-> p, kind |-> kd, target |-> t]

DepSpecs ==
    { Dep(log, "log 0.4", "normal", NoName),
      Dep(log, "log 0.4", "dev", NoName),
      Dep(tracing, "log 0.4", "normal", NoName),
      Dep(tracing, "log 0.3", "normal", NoName),
      Dep(log_once, "log-once 0.4", "normal", NoName),
      Dep(log_once, "log-once 0.4", "build", NoName) }

ValidSpec(d) == d.key \in KeysFor(d.pkg)

\* What cargo accepts: a key names one package, a package is declared under
\* one key, a table holds a key once.
ValidDeps(ds) ==
    /\ \A d \in ds : ValidSpec(d)
    /\ \A d, e \in ds : (d.key = e.key) <=> (d.pkg = e.pkg)

Manifests == { ds \in SUBSET DepSpecs : Cardinality(ds) <= MaxDeps /\ ValidDeps(ds) }

(***************************************************************************)
(* Source files.  `refs` is the set of crate identifiers the text of the   *)
(* file references in one of the forms the two patterns recognise outside  *)
(* `//` comments; an unreadable file makes search_path return Err.         *)
(***************************************************************************)
SourceFile(rs, ok) == [refs |-> rs, readable |-> ok]

SourceFiles ==
    { SourceFile({ r }, TRUE) : r \in { log, tracing, replace(log_once, "-", "_") } }
        \cup { SourceFile({}, FALSE) }

SeqsUpTo(S, n) == UNION { [1..k -> S] : k \in 0..n }

\* The ignore lists of the inputs.
PackageIgnoredLists == SUBSET { log, log_once }
Workspace(found, ign) == [found |-> found, ignored |-> ign]
NoWorkspace == Workspace(FALSE, {})
WorkspaceOptions == { NoWorkspace, Workspace(TRUE, { log }) }

(***************************************************************************)
(* A package directory on disk: its Cargo.toml (parsable or not, with or   *)
(* without a [package]), the `ignored` list of package.metadata, the first *)
(* ancestor manifest that declares a workspace, the .rs files under its    *)
(* source roots in walk order, and the path of [lib], if one is declared.  *)
(***************************************************************************)
Package(ok, named, ds, ign, ws, fs) ==
    [parse_ok |-> ok, has_package |-> named, deps |-> ds, ignored |-> ign,
     workspace |-> ws, files |-> fs, lib |-> NoName]

BrokenPackage == Package(FALSE, FALSE, {}, {}, NoWorkspace, << >>)
VirtualPackage == Package(TRUE, FALSE, {}, {}, NoWorkspace, << >>)

Packages ==
    { Package(TRUE, TRUE, ds, ign, ws, fs) :
        ds \in Manifests, ign \in PackageIgnoredLists, ws \in WorkspaceOptions,
        fs \in SeqsUpTo(SourceFiles, MaxFiles) }
        \cup { BrokenPackage, VirtualPackage }
        \cup { [Package(TRUE, TRUE, { Dep(log, "log 0.4", "normal", NoName) }, {},
                        NoWorkspace, << SourceFile({ log }, TRUE) >>) EXCEPT !.lib = l] :
                 l \in { << "s", "r", "c", "/", "l", "i", "b", ".", "r", "s" >>, << "s", "r", "c", "/", "l", "i", "b" >>,
                         << "g", "e", "n", "/", "l", "i", "b", ".", "r", "s", ".", "i", "n" >> } }

(***************************************************************************)
(* What `cargo metadata` answers for a package (PackageAnalysis::new):     *)
(* the root package's dependency declarations, in some order, and the      *)
(* edges of the root's resolve node, one per resolved package, in some     *)
(* order.  Edges exist for every kind of dependency.                       *)
(***************************************************************************)
Perms(S) == { s \in [1..Cardinality(S) -> S] : Range(s) = S }

\* cargo_metadata::Dependency: `rename` is set when the key is not the
\* package's name.
MetaDependency(d) ==
    [name |-> PkgName(d.pkg),
     rename |-> IF d.key = PkgName(d.pkg) THEN NoName ELSE d.key,
     kind |-> d.kind, target |-> d.target]

\* cargo_metadata::NodeDep: `name` is the extern crate name, never hyphenated.
ExternName(d) ==
    IF d.key = PkgName(d.pkg) THEN LibName(d.pkg) ELSE replace(d.key, "-", "_")

NodeDep(d) == [name |-> ExternName(d), pkg |-> d.pkg]

NoMetadata == [present |-> FALSE, dependencies |-> << >>, deps |-> << >>]

CargoMetadata(ds) ==
    { [present |-> TRUE, dependencies |-> specs, deps |-> edges] :
        specs \in Perms({ MetaDependency(d) : d \in ds }),
        edges \in Perms({ NodeDep(d) : d \in ds }) }

(***************************************************************************)
(* BTreeMap<String, String> as the sequence of its (key, value) pairs in   *)
(* key order.                                                              *)
(***************************************************************************)
BTreeInsert(m, k, v) ==
    IF \E i \in DOMAIN m : m[i][1] = k
    THEN [i \in DOMAIN m |-> IF m[i][1] = k THEN << k, v >> ELSE m[i]]
    ELSE LET n == Cardinality({ i \in DOMAIN m : StrLess(m[i][1], k) })
         IN  SubSeq(m, 1, n) \o << << k, v >> >> \o SubSeq(m, n + 1, Len(m))

RECURSIVE BTreeFrom(_, _)
BTreeFrom(m, pairs) ==
    IF pairs = << >> THEN m
    ELSE BTreeFrom(BTreeInsert(m, Head(pairs)[1], Head(pairs)[2]), Tail(pairs))

\* Mutant of collect_map: the pairs kept as a list, a key possibly twice.
collect_vec(pairs) == pairs

\* Iterator::collect::<BTreeMap<_, _>>(): a later pair replaces an earlier
\* one with the same key.
collect_map(pairs) == BTreeFrom(<< >>, pairs)

\* The keys of a set in BTreeMap order.
SortedSeq(S) ==
    [i \in 1..Cardinality(S) |->
        CHOOSE x \in S : Cardinality({ y \in S : StrLess(y, x) }) = i - 1]

(***************************************************************************)
(* cargo_toml: manifest.dependencies is the top-level [dependencies]       *)
(* table only.                                                             *)
(***************************************************************************)
RuntimeKeys(ds) == { d.key : d \in { e \in ds : e.kind = "normal" /\ e.target = NoName } }

\* Mutant of manifest_pairs: the key taken as the crate name, hyphens kept.
manifest_pairs_raw(ds) ==
    LET keys == SortedSeq(RuntimeKeys(ds))
    IN  [i \in DOMAIN keys |-> << keys[i], keys[i] >>]

\* find_unused, manifest-only branch: (k, k.replace('-', "_")) for every key.
manifest_pairs(ds) ==
    LET keys == SortedSeq(RuntimeKeys(ds))
    IN  [i \in DOMAIN keys |-> << keys[i], replace(keys[i], "-", "_") >>]

\* find_unused, metadata branch: for every edge of the root node, the first
\* declaration of the root package whose name is the name of the edge's
\* package gives the key (its rename, else its name).
metadata_pairs(meta) ==
    [i \in DOMAIN meta.deps |->
        LET dep == meta.deps[i]
            crate_name == dep.name
            dep_pkg_name == PkgName(dep.pkg)
            first == CHOOSE j \in DOMAIN meta.dependencies :
                        /\ meta.dependencies[j].name = dep_pkg_name
                        /\ \A h \in 1..(j - 1) : meta.dependencies[h].name # dep_pkg_name
            dep_spec == meta.dependencies[first]
            dep_key == IF dep_spec.rename # NoName THEN dep_spec.rename ELSE dep_spec.name
        IN  << dep_key, crate_name >>]

resolve_dependencies(ds, meta) ==
    IF meta.present THEN collect_map(metadata_pairs(meta))
    ELSE collect_map(manifest_pairs(ds))

\* Mutant of search_path: any reference of the file counts as a match.
search_any_ref(crate_name, file) ==
    IF ~file.readable THEN "Err"
    ELSE IF file.refs # {} THEN "true" ELSE "false"

\* Mutant of search_path: a file that cannot be read counts as a match.
search_path_err_is_match(crate_name_, file) ==
    IF ~file.readable THEN "true"
    ELSE IF \E r \in file.refs : to_lowercase(r) = to_lowercase(crate_name_)
         THEN "true" ELSE "false"

(***************************************************************************)
(* Search::search_path on one file, for one crate identifier: Ok(true),    *)
(* Ok(false) or Err.                                                       *)
(***************************************************************************)
search_path(crate_name, file) ==
    IF ~file.readable THEN "Err"
    ELSE IF \E r \in file.refs : to_lowercase(r) = to_lowercase(crate_name)
         THEN "true" ELSE "false"

\* The result of the per-dependency closure of find_unused, once the loop
\* over the paths has ended with `found_once`.
SingleDepResult(tag, dep) == [tag |-> tag, dep |-> dep]
Pending == SingleDepResult("Pending", NoName)

\* Mutant of classify: a used dependency ignored at workspace level is
\* reported as ignored but used.
classify_ws_warns(found, dep_name, ignored, ws_ignored) ==
    IF ~found
    THEN IF dep_name \in ignored \/ dep_name \in ws_ignored
         THEN SingleDepResult("None", dep_name)
         ELSE SingleDepResult("Unused", dep_name)
    ELSE IF dep_name \in ignored \/ dep_name \in ws_ignored
         THEN SingleDepResult("IgnoredButUsed", dep_name)
         ELSE SingleDepResult("None", dep_name)

classify(found, dep_name, ignored, ws_ignored) ==
    IF ~found
    THEN IF dep_name \in ignored \/ dep_name \in ws_ignored
         THEN SingleDepResult("None", dep_name)
         ELSE SingleDepResult("Unused", dep_name)
    ELSE IF dep_name \in ignored
         THEN SingleDepResult("IgnoredButUsed", dep_name)
         ELSE SingleDepResult("None", dep_name)

\* filter_map(..).collect::<Vec<_>>() of the parallel iterator: the results
\* that are Some, in the order of the dependency map, whatever the order
\* `done` in which the tasks completed.
RECURSIVE SelectResults(_, _)
SelectResults(res, order) ==
    IF order = << >> THEN << >>
    ELSE (IF res[Head(order)].tag \in { "Unused", "IgnoredButUsed" }
          THEN << res[Head(order)] >> ELSE << >>)
         \o SelectResults(res, Tail(order))

\* Mutant of collect_results: the results in the order the tasks completed.
collect_by_completion(res, completion) == SelectResults(res, completion)

collect_results(res, completion) == SelectResults(res, [i \in DOMAIN res |-> i])

\* The loop that fills analysis.unused / analysis.ignored_used.
RECURSIVE DepsWithTag(_, _)
DepsWithTag(collected, tag) ==
    IF collected = << >> THEN << >>
    ELSE (IF Head(collected).tag = tag THEN << Head(collected).dep >> ELSE << >>)
         \o DepsWithTag(Tail(collected), tag)

(***************************************************************************)
(* find_unused as a function of the package directory and of the answer of *)
(* `cargo metadata`: the classification of every entry of the dependency   *)
(* map, taken in map order.                                                *)
(***************************************************************************)
found_in(crate_name, files) ==
    \E i \in DOMAIN files : search_path(crate_name, files[i]) = "true"

ws_ignored_of(p) == IF p.workspace.found THEN p.workspace.ignored ELSE {}

analysis_of(p, meta) ==
    LET deps == resolve_dependencies(p.deps, meta)
        res == [t \in DOMAIN deps |->
                   classify(found_in(deps[t][2], p.files), deps[t][1], p.ignored,
                            ws_ignored_of(p))]
        collected == collect_results(res, [t \in DOMAIN deps |-> t])
    IN  [unused |-> DepsWithTag(collected, "Unused"),
         ignored_used |-> DepsWithTag(collected, "IgnoredButUsed")]

(***************************************************************************)
(* State.                                                                  *)
(***************************************************************************)
VARIABLES
    pkg,                 \* the package directory find_unused is called on
    with_cargo_metadata, \* UseCargoMetadata: "Yes" or "No"
    pc,                  \* position of find_unused
    ret,                 \* its outcome: "Running", "Err", "OkNone", "OkSome", "Panic"
    workspace_ignored,   \* second component of get_full_manifest's result
    metadata,            \* analysis.metadata
    paths,               \* collect_paths(..)
    dependencies,        \* the BTreeMap declared key -> crate name
    task,                \* per dependency task: "New", "Loop", "Done"
    pos,                 \* per task: index of the next path of the loop
    found_once,          \* per task: the local found_once
    results,             \* per task: what its closure returned
    done,                \* the tasks in the order they completed
    unused,              \* analysis.unused
    ignored_used         \* analysis.ignored_used

fvars == << pkg, with_cargo_metadata, pc, ret, workspace_ignored, metadata, paths,
            dependencies, task, pos, found_once, results, done, unused, ignored_used >>


\* The state of a run of the process.
VARIABLES
    cmdline,                 \* the command line given to the process
    cwd,                     \* what the walk of "." answers
    disk,                    \* manifest path -> the package directory
    run_pc,                  \* position of run_machete / main
    paths_arg,               \* args.paths
    path_idx,                \* index of `path` in `for path in args.paths`
    manifest_path_entries,   \* the entries of the current path
    outcomes,                \* per entry: what find_unused returned
    finished,                \* the entries in the order their tasks ended
    analyses,                \* `results` of the current path
    res_idx,                 \* index in `for (analysis, path) in results`
    has_unused_dependencies,
    walkdir_errors,          \* the indexes of the paths whose walk failed
    run_result,              \* what run_machete returned
    exit_code,
    analysed,                \* the entries find_unused was called on, with what it returned
    printed,                 \* the per-package blocks printed so far
    warned,                  \* the "marked as ignored" warnings printed so far
    fix_failed               \* a fix of this run failed: "no", "remove", "write"

rvars == << cmdline, cwd, disk, run_pc, paths_arg, path_idx, manifest_path_entries,
            outcomes, finished, analyses, res_idx, has_unused_dependencies,
            walkdir_errors, run_result, exit_code, analysed, printed, warned,
            fix_failed >>

\* The state of one search of a text for a crate identifier (Search).
VARIABLES
    crate_name,      \* the identifier the two patterns are made for
    haystack,        \* the text searched
    search_pc,       \* "line": line searcher, "multiline": multi-line searcher, "done"
    line_idx,        \* line searcher: index of the next line
    multiline_pos,   \* multi-line searcher: position of the search
    last_match,      \* multi-line searcher: the lines of the match not yet sunk
    sink_found,      \* StopAfterFirstMatch::found
    search_ret,      \* what the call returned: "true", "false" or "Err"
    rest_paths,      \* the files this Search is still to be called on
    call             \* of the current call: sink.found when it began, the phases it
                     \* ran and the regions its sink accepted ("hit"), in order

svars == << crate_name, haystack, search_pc, line_idx, multiline_pos, last_match,
            sink_found, search_ret, rest_paths, call >>

\* The state of one call of collect_paths (search_unused.rs).
VARIABLES
    targets,         \* the declared paths of the manifest: lib and products
    tree,            \* the entries of the package directory
    collect_pc,      \* position of collect_paths
    root_paths,      \* the HashSet root_paths
    walked,          \* the roots already walked by flat_map
    found_paths      \* the paths kept so far

pvars == << targets, tree, collect_pc, root_paths, walked, found_paths >>

\* The state of one fix of a manifest (run_machete with --fix).
VARIABLES
    manifest_file,   \* the manifest on disk
    manifest_before, \* what the file held when the fix began
    to_remove,       \* the dependency_list given to remove_dependencies
    fix_pc,          \* position of the fix
    document,        \* the DocumentMut of remove_dependencies
    matched_tables,  \* what get_table_deps returned
    dep_idx,         \* index in `for dep in dependency_list`
    fix_error        \* the error of remove_dependencies, if any

xvars == << manifest_file, manifest_before, to_remove, fix_pc, document,
            matched_tables, dep_idx, fix_error >>

\* The state of one call of collect_paths (main.rs), the manifest discovery.
VARIABLES
    options,         \* the CollectPathOptions of the call
    start_path,      \* the `path` walked, relative to the current directory
    repository,      \* whether a git repository holds the tree, the unreadable directories
    discover_pc,     \* position of collect_paths
    walker,          \* the walk: index of the next entry and the directories not descended into
    walk_result          \* what collect() holds so far, and the result of the call

dvars == << options, start_path, repository, discover_pc, walker, walk_result >>

\* The state of one call of get_full_manifest by find_unused.
VARIABLES
    tree_manifests,  \* depth -> the Cargo.toml of the directory at that depth, from the
                     \* root of the file system down to the package directory
    current_dir,     \* the depth of the current directory of the process
    manifest_path,   \* the path find_unused is called on
    dir_path,        \* the PathBuf the loop pops
    parents_pc,      \* position of get_full_manifest
    full_manifest    \* its result, and the ancestor manifests it opened

wvars == << tree_manifests, current_dir, manifest_path, dir_path, parents_pc, full_manifest >>

vars == << fvars, rvars, svars, pvars, xvars, dvars, wvars >>

\* What the actions of one part leave alone.
beside_find == << rvars, svars, pvars, xvars, dvars, wvars >>
beside_run == << fvars, svars, pvars, xvars, dvars, wvars >>
beside_search == << fvars, rvars, pvars, xvars, dvars, wvars >>
beside_collect == << fvars, rvars, svars, xvars, dvars, wvars >>
beside_fix == << fvars, rvars, svars, pvars, dvars, wvars >>
beside_discover == << fvars, rvars, svars, pvars, xvars, wvars >>
beside_parents == << fvars, rvars, svars, pvars, xvars, dvars >>

Tasks == DOMAIN dependencies

FindInit ==
    /\ pkg \in Packages
    /\ with_cargo_metadata \in { "Yes", "No" }
    /\ pc = "get_full_manifest"
    /\ ret = "Running"
    /\ workspace_ignored = {}
    /\ metadata = NoMetadata
    /\ paths = << >>
    /\ dependencies = << >>
    /\ task = << >>
    /\ pos = << >>
    /\ found_once = << >>
    /\ results = << >>
    /\ done = << >>
    /\ unused = << >>
    /\ ignored_used = << >>

\* get_full_manifest: the manifest does not parse (Err), or it parses and the
\* `ignored` list of the first ancestor workspace is returned with it; then
\* find_unused returns Ok(None) for a manifest without a package.
get_full_manifest ==
    /\ pc = "get_full_manifest"
    /\ IF ~pkg.parse_ok
       THEN /\ pc' = "returned" /\ ret' = "Err"
            /\ UNCHANGED workspace_ignored
       ELSE /\ workspace_ignored' = (IF pkg.workspace.found THEN pkg.workspace.ignored ELSE {})
            /\ IF ~pkg.has_package
               THEN pc' = "returned" /\ ret' = "OkNone"
               ELSE pc' = "PackageAnalysis::new" /\ ret' = ret
    /\ UNCHANGED << pkg, with_cargo_metadata, metadata, paths, dependencies, task, pos,
                    found_once, results, done, unused, ignored_used >>
    /\ UNCHANGED beside_find

\* collect_paths asserts that a declared target path ends in ".rs".
paths_are_rust_files(p) == p.lib # NoName => ends_with(p.lib, << ".", "r", "s" >>)

\* PackageAnalysis::new runs `cargo metadata` when asked to (it may fail),
\* then collect_paths lists the source files, or panics on its assertion.
PackageAnalysis_new ==
    /\ pc = "PackageAnalysis::new"
    /\ \/ /\ with_cargo_metadata = "Yes"
          /\ pc' = "returned" /\ ret' = "Err"
          /\ UNCHANGED << metadata, paths >>
       \/ /\ IF with_cargo_metadata = "Yes"
             THEN metadata' \in CargoMetadata(pkg.deps)
             ELSE metadata' = NoMetadata
          /\ IF paths_are_rust_files(pkg)
             THEN paths' = pkg.files /\ pc' = "dependencies" /\ ret' = ret
             ELSE paths' = paths /\ pc' = "returned" /\ ret' = "Panic"
    /\ UNCHANGED << pkg, with_cargo_metadata, workspace_ignored, dependencies, task, pos,
                    found_once, results, done, unused, ignored_used >>
    /\ UNCHANGED beside_find

\* The dependency map is built and one task per entry is handed to rayon.
resolve ==
    /\ pc = "dependencies"
    /\ dependencies' = resolve_dependencies(pkg.deps, metadata)
    /\ task' = [t \in DOMAIN dependencies' |-> "New"]
    /\ pos' = [t \in DOMAIN dependencies' |-> 1]
    /\ found_once' = [t \in DOMAIN dependencies' |-> FALSE]
    /\ results' = [t \in DOMAIN dependencies' |-> Pending]
    /\ pc' = "par_iter"
    /\ UNCHANGED << pkg, with_cargo_metadata, ret, workspace_ignored, metadata, paths,
                    done, unused, ignored_used >>
    /\ UNCHANGED beside_find

\* Search::new(&crate_name): the assertion on the hyphen.
Search_new(t) ==
    /\ pc = "par_iter"
    /\ task[t] = "New"
    /\ IF contains(dependencies[t][2], "-")
       THEN /\ pc' = "returned" /\ ret' = "Panic"
            /\ UNCHANGED task
       ELSE /\ task' = [task EXCEPT ![t] = "Loop"]
            /\ UNCHANGED << pc, ret >>
    /\ UNCHANGED << pkg, with_cargo_metadata, workspace_ignored, metadata, paths,
                    dependencies, pos, found_once, results, done, unused, ignored_used >>
    /\ UNCHANGED beside_find

\* One iteration of `for path in &paths`: Ok(true) sets found_once and
\* breaks, Ok(false) and Err go on with the next path.
search_one_path(t) ==
    /\ pc = "par_iter"
    /\ task[t] = "Loop"
    /\ ~found_once[t]
    /\ pos[t] <= Len(paths)
    /\ IF search_path(dependencies[t][2], paths[pos[t]]) = "true"
       THEN found_once' = [found_once EXCEPT ![t] = TRUE] /\ pos' = pos
       ELSE pos' = [pos EXCEPT ![t] = pos[t] + 1] /\ found_once' = found_once
    /\ UNCHANGED << pkg, with_cargo_metadata, pc, ret, workspace_ignored, metadata, paths,
                    dependencies, task, results, done, unused, ignored_used >>
    /\ UNCHANGED beside_find

\* After the loop: the closure returns its classification.
task_return(t) ==
    /\ pc = "par_iter"
    /\ task[t] = "Loop"
    /\ found_once[t] \/ pos[t] > Len(paths)
    /\ results' = [results EXCEPT ![t] =
                      classify(found_once[t], dependencies[t][1], pkg.ignored,
                               workspace_ignored)]
    /\ task' = [task EXCEPT ![t] = "Done"]
    /\ done' = Append(done, t)
    /\ UNCHANGED << pkg, with_cargo_metadata, pc, ret, workspace_ignored, metadata, paths,
                    dependencies, pos, found_once, unused, ignored_used >>
    /\ UNCHANGED beside_find

\* collect() ends when every task has returned; the results are pushed to
\* the two lists and find_unused returns Ok(Some(analysis)).
aggregate ==
    /\ pc = "par_iter"
    /\ \A t \in Tasks : task[t] = "Done"
    /\ LET collected == collect_results(results, done)
       IN  /\ unused' = DepsWithTag(collected, "Unused")
           /\ ignored_used' = DepsWithTag(collected, "IgnoredButUsed")
    /\ pc' = "returned" /\ ret' = "OkSome"
    /\ UNCHANGED << pkg, with_cargo_metadata, workspace_ignored, metadata, paths,
                    dependencies, task, pos, found_once, results, done >>
    /\ UNCHANGED beside_find

FindNext ==
    \/ get_full_manifest
    \/ PackageAnalysis_new
    \/ resolve
    \/ \E t \in Tasks : Search_new(t)
    \/ \E t \in Tasks : search_one_path(t)
    \/ \E t \in Tasks : task_return(t)
    \/ aggregate


(***************************************************************************)
(* The coordinator: run_machete and main (src/src/main.rs).                *)
(***************************************************************************)
MaxPaths == 2

\* The manifests of the tree and what a Cargo.toml of the inputs holds.
ManifestPaths == { "a/Cargo.toml", "b/Cargo.toml" }

RunPackages ==
    { Package(TRUE, TRUE, { Dep(log, "log 0.4", "normal", NoName) }, {}, NoWorkspace, << >>),
      Package(TRUE, TRUE, { Dep(log, "log 0.4", "normal", NoName) }, {}, NoWorkspace,
              << SourceFile({ log }, TRUE) >>),
      Package(TRUE, TRUE, { Dep(log, "log 0.4", "normal", wasm32_wasi) }, {}, NoWorkspace,
              << >>),
      Package(TRUE, TRUE, { Dep(log, "log 0.4", "normal", NoName) }, { log }, NoWorkspace,
              << SourceFile({ log }, TRUE) >>),
      Package(TRUE, TRUE, { Dep(log, "log 0.4", "normal", NoName),
                            Dep(log_once, "log-once 0.4", "normal", NoName) },
              { log }, NoWorkspace, << SourceFile({ log }, TRUE) >>),
      BrokenPackage,
      VirtualPackage }

\* What collect_paths (main.rs) answers for an input path: a walk error, or
\* the Cargo.toml files below it in walk order.
WalkErr == [walk_ok |-> FALSE, entries |-> << >>]
WalkOk(es) == [walk_ok |-> TRUE, entries |-> es]

InputPaths ==
    { WalkErr, WalkOk(<< >>), WalkOk(<< "a/Cargo.toml" >>), WalkOk(<< "b/Cargo.toml" >>),
      WalkOk(<< "a/Cargo.toml", "b/Cargo.toml" >>) }

\* The command line: rejected by argh, or parsed into MacheteArgs.
CommandLine(valid, version, meta, fix, ps) ==
    [valid |-> valid, version |-> version, with_metadata |-> meta, fix |-> fix,
     paths |-> ps]

CommandLines ==
    { CommandLine(TRUE, FALSE, m, f, ps) :
        m \in BOOLEAN, f \in BOOLEAN, ps \in SeqsUpTo(InputPaths, MaxPaths) }
        \cup { CommandLine(FALSE, FALSE, FALSE, FALSE, << >>),
               CommandLine(TRUE, TRUE, FALSE, FALSE, << >>) }

\* get_table_deps: the dependency tables remove_dependencies looks into, the
\* three top-level ones and those of the `target` keys that start with "cfg(".
TableOf(d) == << d.target, d.kind >>

get_table_deps(ds) ==
    { TableOf(d) : d \in { e \in ds : \/ e.target = NoName
                                      \/ starts_with(e.target, cfg_prefix) } }

\* remove_dependencies: every name of the list is removed from every matched
\* table that holds it; a name no matched table holds is an error and
\* nothing is returned.
RECURSIVE RemoveAll(_, _, _)
RemoveAll(ds, tables, dependency_list) ==
    IF dependency_list = << >> THEN [ok |-> TRUE, deps |-> ds]
    ELSE LET removed == { d \in ds : d.key = Head(dependency_list)
                                     /\ TableOf(d) \in tables }
         IN  IF removed = {} THEN [ok |-> FALSE, deps |-> {}]
             ELSE RemoveAll(ds \ removed, tables, Tail(dependency_list))

remove_dependencies(ds, dependency_list) ==
    RemoveAll(ds, get_table_deps(ds), dependency_list)

\* One call of find_unused by a task of the coordinator.
Outcome(r, u, iu) == [ret |-> r, unused |-> u, ignored_used |-> iu]
NotRun == Outcome("Pending", << >>, << >>)

find_unused(p, with_metadata) ==
    IF ~p.parse_ok THEN { Outcome("Err", << >>, << >>) }
    ELSE IF ~p.has_package THEN { Outcome("OkNone", << >>, << >>) }
    ELSE IF with_metadata
         THEN { Outcome("Err", << >>, << >>) }
                 \cup { Outcome("OkSome", analysis_of(p, meta).unused,
                                analysis_of(p, meta).ignored_used) :
                          meta \in CargoMetadata(p.deps) }
         ELSE { Outcome("OkSome", analysis_of(p, NoMetadata).unused,
                        analysis_of(p, NoMetadata).ignored_used) }

\* filter_map(..).collect() of run_machete: the analyses with a non-empty
\* `unused`, in the order of the manifest entries.
RECURSIVE SelectAnalyses(_, _, _)
SelectAnalyses(outs, entries, order) ==
    IF order = << >> THEN << >>
    ELSE LET j == Head(order)
         IN  (IF outs[j].ret = "OkSome" /\ outs[j].unused # << >>
              THEN << [path |-> entries[j],
                       unused |-> outs[j].unused,
                       ignored_used |-> outs[j].ignored_used] >>
              ELSE << >>)
             \o SelectAnalyses(outs, entries, Tail(order))

collect_analyses(outs, entries, completion) ==
    SelectAnalyses(outs, entries, [j \in DOMAIN outs |-> j])

RunIdle ==
    /\ cmdline = CommandLine(TRUE, TRUE, FALSE, FALSE, << >>)
    /\ cwd = WalkOk(<< >>)
    /\ disk = [m \in ManifestPaths |-> VirtualPackage]
    /\ run_pc = "idle"
    /\ paths_arg = << >>
    /\ path_idx = 1
    /\ manifest_path_entries = << >>
    /\ outcomes = << >>
    /\ finished = << >>
    /\ analyses = << >>
    /\ res_idx = 1
    /\ has_unused_dependencies = FALSE
    /\ walkdir_errors = << >>
    /\ run_result = "Running"
    /\ exit_code = -1
    /\ analysed = {}
    /\ printed = << >>
    /\ warned = << >>
    /\ fix_failed = "no"

RunInit ==
    /\ cmdline \in CommandLines
    /\ cwd \in (IF cmdline.valid /\ ~cmdline.version /\ cmdline.paths = << >>
                THEN InputPaths ELSE { WalkOk(<< >>) })
    /\ disk \in [ManifestPaths -> RunPackages]
    /\ run_pc = "args"
    /\ paths_arg = << >>
    /\ path_idx = 1
    /\ manifest_path_entries = << >>
    /\ outcomes = << >>
    /\ finished = << >>
    /\ analyses = << >>
    /\ res_idx = 1
    /\ has_unused_dependencies = FALSE
    /\ walkdir_errors = << >>
    /\ run_result = "Running"
    /\ exit_code = -1
    /\ analysed = {}
    /\ printed = << >>
    /\ warned = << >>
    /\ fix_failed = "no"

\* argh::from_env() ends the process with status 1 when it rejects the
\* command line; `--version` prints and exits 0; an empty path list becomes
\* the current directory.
parse_args ==
    /\ run_pc = "args"
    /\ IF ~cmdline.valid
       THEN /\ exit_code' = 1 /\ run_pc' = "exited"
            /\ UNCHANGED paths_arg
       ELSE IF cmdline.version
       THEN /\ exit_code' = 0 /\ run_pc' = "exited"
            /\ UNCHANGED paths_arg
       ELSE /\ paths_arg' = (IF cmdline.paths = << >> THEN << cwd >> ELSE cmdline.paths)
            /\ run_pc' = "for_path"
            /\ UNCHANGED exit_code
    /\ UNCHANGED << cmdline, cwd, disk, path_idx, manifest_path_entries, outcomes,
                    finished, analyses, res_idx, has_unused_dependencies, walkdir_errors,
                    run_result, analysed, printed, warned, fix_failed >>
    /\ UNCHANGED beside_run

\* The head of `for path in args.paths`: collect_paths fails (the error is
\* kept and the loop continues) or gives the entries handed to par_iter.
walk_path ==
    /\ run_pc = "for_path"
    /\ path_idx <= Len(paths_arg)
    /\ IF ~paths_arg[path_idx].walk_ok
       THEN /\ walkdir_errors' = Append(walkdir_errors, path_idx)
            /\ path_idx' = path_idx + 1
            /\ UNCHANGED << run_pc, manifest_path_entries, outcomes, finished >>
       ELSE /\ manifest_path_entries' = paths_arg[path_idx].entries
            /\ outcomes' = [j \in DOMAIN paths_arg[path_idx].entries |-> NotRun]
            /\ finished' = << >>
            /\ run_pc' = "par_iter"
            /\ UNCHANGED << walkdir_errors, path_idx >>
    /\ UNCHANGED << cmdline, cwd, disk, paths_arg, analyses, res_idx,
                    has_unused_dependencies, run_result, exit_code, analysed, printed,
                    warned, fix_failed >>
    /\ UNCHANGED beside_run

\* The task of one manifest entry: find_unused on what the disk holds.
find_unused_task(j) ==
    /\ run_pc = "par_iter"
    /\ outcomes[j] = NotRun
    /\ outcomes' \in { [outcomes EXCEPT ![j] = o] :
                         o \in find_unused(disk[manifest_path_entries[j]],
                                           cmdline.with_metadata) }
    /\ finished' = Append(finished, j)
    /\ analysed' = analysed \cup { [at |-> << path_idx, j >>,
                                     path |-> manifest_path_entries[j],
                                     ret |-> outcomes'[j].ret,
                                     unused |-> outcomes'[j].unused,
                                     ignored_used |-> outcomes'[j].ignored_used] }
    /\ UNCHANGED << cmdline, cwd, disk, run_pc, paths_arg, path_idx,
                    manifest_path_entries, analyses, res_idx, has_unused_dependencies,
                    walkdir_errors, run_result, exit_code, printed, warned, fix_failed >>
    /\ UNCHANGED beside_run

\* collect() of the manifest tasks; with no result the loop continues with
\* the next path, else the results are displayed.
collect_path_results ==
    /\ run_pc = "par_iter"
    /\ \A j \in DOMAIN outcomes : outcomes[j] # NotRun
    /\ analyses' = collect_analyses(outcomes, manifest_path_entries, finished)
    /\ res_idx' = 1
    /\ IF analyses' = << >>
       THEN run_pc' = "for_path" /\ path_idx' = path_idx + 1
       ELSE run_pc' = "display" /\ path_idx' = path_idx
    /\ UNCHANGED << cmdline, cwd, disk, paths_arg, manifest_path_entries, outcomes,
                    finished, has_unused_dependencies, walkdir_errors, run_result,
                    exit_code, analysed, printed, warned, fix_failed >>
    /\ UNCHANGED beside_run

\* One iteration of `for (analysis, path) in results`: the block of the
\* package is printed, then with --fix the manifest is rewritten; an error of
\* remove_dependencies is returned with `?`, a failed write panics.
display(write_ok) ==
    /\ run_pc = "display"
    /\ res_idx <= Len(analyses)
    /\ LET a == analyses[res_idx]
           fixed == remove_dependencies(disk[a.path].deps, a.unused)
       IN  /\ printed' = Append(printed, [path_idx |-> path_idx, path |-> a.path,
                                          unused |-> a.unused])
           /\ warned' = warned \o [i \in DOMAIN a.ignored_used |->
                                     [path |-> a.path, dep |-> a.ignored_used[i]]]
           /\ has_unused_dependencies' = TRUE
           /\ IF ~cmdline.fix
              THEN /\ res_idx' = res_idx + 1
                   /\ UNCHANGED << disk, run_pc, run_result, fix_failed >>
              ELSE IF ~fixed.ok
              THEN /\ run_result' = "Err" /\ run_pc' = "returned"
                   /\ fix_failed' = "remove"
                   /\ UNCHANGED << disk, res_idx >>
              ELSE IF ~write_ok
              THEN /\ run_result' = "Panic" /\ run_pc' = "returned"
                   /\ fix_failed' = "write"
                   /\ UNCHANGED << disk, res_idx >>
              ELSE /\ disk' = [disk EXCEPT ![a.path].deps = fixed.deps]
                   /\ res_idx' = res_idx + 1
                   /\ UNCHANGED << run_pc, run_result, fix_failed >>
    /\ UNCHANGED << cmdline, cwd, paths_arg, path_idx, manifest_path_entries, outcomes,
                    finished, analyses, walkdir_errors, exit_code, analysed >>
    /\ UNCHANGED beside_run

\* The end of the display loop: on to the next path.
next_path ==
    /\ run_pc = "display"
    /\ res_idx > Len(analyses)
    /\ run_pc' = "for_path"
    /\ path_idx' = path_idx + 1
    /\ UNCHANGED << cmdline, cwd, disk, paths_arg, manifest_path_entries, outcomes,
                    finished, analyses, res_idx, has_unused_dependencies, walkdir_errors,
                    run_result, exit_code, analysed, printed, warned, fix_failed >>
    /\ UNCHANGED beside_run

\* After the loop: the walk errors are bailed, else Ok(has_unused_dependencies).
run_machete_return ==
    /\ run_pc = "for_path"
    /\ path_idx > Len(paths_arg)
    /\ run_result' = (IF walkdir_errors # << >> THEN "Err"
                      ELSE IF has_unused_dependencies THEN "Ok(true)" ELSE "Ok(false)")
    /\ run_pc' = "returned"
    /\ UNCHANGED << cmdline, cwd, disk, paths_arg, path_idx, manifest_path_entries,
                    outcomes, finished, analyses, res_idx, has_unused_dependencies,
                    walkdir_errors, exit_code, analysed, printed, warned, fix_failed >>
    /\ UNCHANGED beside_run

\* main: the exit code of the process (101 is that of a panic).
exit_status(result) ==
    CASE result = "Ok(false)" -> 0
      [] result = "Ok(true)" -> 1
      [] result = "Err" -> 2
      [] result = "Panic" -> 101

main ==
    /\ run_pc = "returned"
    /\ exit_code' = exit_status(run_result)
    /\ run_pc' = "exited"
    /\ UNCHANGED << cmdline, cwd, disk, paths_arg, path_idx, manifest_path_entries,
                    outcomes, finished, analyses, res_idx, has_unused_dependencies,
                    walkdir_errors, run_result, analysed, printed, warned, fix_failed >>
    /\ UNCHANGED beside_run

RunNext ==
    \/ parse_args
    \/ walk_path
    \/ \E j \in DOMAIN outcomes : find_unused_task(j)
    \/ collect_path_results
    \/ \E write_ok \in BOOLEAN : display(write_ok)
    \/ next_path
    \/ run_machete_return
    \/ main

(***************************************************************************)
(* The patterns (src/src/search_unused.rs, make_line_regexp and            *)
(* make_multiline_regexp) and the regex engine that runs them.  A pattern  *)
(* is a tree; Ends(r, s, i) is the set of the positions where a match of r *)
(* that starts at position i of s can end.                                 *)
(***************************************************************************)
\* \w, \s and the two negated classes of the patterns.
is_word(c) ==
    c \in Range(UpperCase) \cup Range(LowerCase) \cup { "_" }
          \cup { "0", "1", "2", "3", "4", "5", "6", "7", "8", "9" }
is_space(c) == c \in { " ", "\t", "\n", "\r" }

ClassHas(name, c) ==
    CASE name = "\\w" -> is_word(c)
      [] name = "\\W" -> ~is_word(c)
      [] name = "\\s" -> is_space(c)
      [] name = "[^:]" -> c # ":"
      [] name = "[^{}]" -> c \notin { "{", "}" }

\* The nodes of a pattern.
Chr(c) == [t |-> "chr", c |-> c]
ChrI(c) == [t |-> "chr(?i)", c |-> c]
Class(name) == [t |-> "class", name |-> name]
StartAnchor == [t |-> "^"]
WordBoundary == [t |-> "\\b"]
Cat(rs) == [t |-> "cat", rs |-> rs]
Alt(rs) == [t |-> "alt", rs |-> rs]
Star(r) == [t |-> "star", r |-> r]
Opt(r) == Alt(<< r, Cat(<< >>) >>)
Plus(r) == Cat(<< r, Star(r) >>)
Lit(s) == Cat([i \in DOMAIN s |-> Chr(s[i])])
LitI(s) == Cat([i \in DOMAIN s |-> ChrI(s[i])])

\* \b: exactly one of the two neighbours is a word character.
at_word_boundary(s, i) ==
    (i > 1 /\ is_word(s[i - 1])) # (i <= Len(s) /\ is_word(s[i]))

RECURSIVE Ends(_, _, _), CatEnds(_, _, _, _), StarEnds(_, _, _, _)
Ends(r, s, i) ==
    CASE r.t = "chr" -> IF i <= Len(s) /\ s[i] = r.c THEN { i + 1 } ELSE {}
      [] r.t = "chr(?i)" ->
            IF i <= Len(s) /\ to_lowercase(<< s[i] >>) = to_lowercase(<< r.c >>)
            THEN { i + 1 } ELSE {}
      [] r.t = "class" -> IF i <= Len(s) /\ ClassHas(r.name, s[i]) THEN { i + 1 } ELSE {}
      [] r.t = "^" -> IF i = 1 THEN { i } ELSE {}
      [] r.t = "\\b" -> IF at_word_boundary(s, i) THEN { i } ELSE {}
      [] r.t = "cat" -> CatEnds(r.rs, 1, s, { i })
      [] r.t = "alt" -> UNION { Ends(r.rs[k], s, i) : k \in DOMAIN r.rs }
      [] r.t = "star" -> StarEnds(r.r, s, { i }, { i })

CatEnds(rs, k, s, from) ==
    IF k > Len(rs) \/ from = {} THEN from
    ELSE CatEnds(rs, k + 1, s, UNION { Ends(rs[k], s, p) : p \in from })

StarEnds(r, s, frontier, reached) ==
    IF frontier = {} THEN reached
    ELSE LET further == (UNION { Ends(r, s, p) : p \in frontier }) \ reached
         IN  StarEnds(r, s, further, reached \cup further)

\* Regex::is_match and the leftmost match at or after a position.
is_match(r, s) == \E i \in 1..(Len(s) + 1) : Ends(r, s, i) # {}

MatchStarts(r, s, from) == { i \in from..(Len(s) + 1) : Ends(r, s, i) # {} }
Min(S) == CHOOSE m \in S : \A n \in S : m <= n
Max(S) == CHOOSE m \in S : \A n \in S : n <= m


\* Mutant of make_line_regexp: the `use` alternative alone.
make_line_regexp_use_only(name) ==
    Cat(<< Lit(<< "u", "s", "e", " " >>), Opt(Lit(<< ":", ":" >>)), LitI(name),
           Alt(<< Lit(<< ":", ":" >>), Lit(<< ";" >>), Lit(<< " ", "a", "s" >>) >>) >>)

\* Mutant of make_line_regexp: the path alternative without its prefix and
\* its word boundary.
make_line_regexp_no_boundary(name) ==
    Alt(<< Cat(<< Lit(<< "u", "s", "e", " " >>), Opt(Lit(<< ":", ":" >>)), LitI(name),
                  Alt(<< Lit(<< ":", ":" >>), Lit(<< ";" >>), Lit(<< " ", "a", "s" >>) >>) >>),
           Cat(<< LitI(name), Lit(<< ":", ":" >>) >>),
           Cat(<< Lit(<< "e", "x", "t", "e", "r", "n", " ", "c", "r", "a", "t", "e", " " >>), LitI(name),
                  Alt(<< Lit(<< " " >>), Lit(<< ";" >>) >>) >>) >>)

\* make_line_regexp:
\*   use (::)?(?i){name}(?-i)(::|;| as)
\*   |(?:[^:]|^|\W::)\b(?i){name}(?-i)::
\*   |extern crate (?i){name}(?-i)( |;)
make_line_regexp(name) ==
    Alt(<< Cat(<< Lit(<< "u", "s", "e", " " >>), Opt(Lit(<< ":", ":" >>)), LitI(name),
                  Alt(<< Lit(<< ":", ":" >>), Lit(<< ";" >>), Lit(<< " ", "a", "s" >>) >>) >>),
           Cat(<< Alt(<< Class("[^:]"), StartAnchor,
                         Cat(<< Class("\\W"), Lit(<< ":", ":" >>) >>) >>),
                  WordBoundary, LitI(name), Lit(<< ":", ":" >>) >>),
           Cat(<< Lit(<< "e", "x", "t", "e", "r", "n", " ", "c", "r", "a", "t", "e", " " >>), LitI(name),
                  Alt(<< Lit(<< " " >>), Lit(<< ";" >>) >>) >>) >>)

\* sub_modules_match of make_multiline_regexp:
\*   (?:::\w+)*(?:::\*|\s+as\s+\w+|::\{ L2 \})?
\* where L2 = (?:[^{}]*(?:\{ L3 \})?[^{}]*)*, L3 is L2 with L4 for L3 and
\* L4 = (?:[^{}]*(?:\{[^{}]*\})?[^{}]*)*: four levels of braces.
not_braces == Star(Class("[^{}]"))

braces_level4 ==
    Star(Cat(<< not_braces,
                Opt(Cat(<< Lit(<< "{" >>), not_braces, Lit(<< "}" >>) >>)),
                not_braces >>))

braces_level3 ==
    Star(Cat(<< not_braces,
                Opt(Cat(<< Lit(<< "{" >>), braces_level4, Lit(<< "}" >>) >>)),
                not_braces >>))

braces_level2 ==
    Star(Cat(<< not_braces,
                Opt(Cat(<< Lit(<< "{" >>), braces_level3, Lit(<< "}" >>) >>)),
                not_braces >>))

\* Mutant of sub_modules_match: no `::{ .. }` after the path.
sub_modules_flat ==
    Cat(<< Star(Cat(<< Lit(<< ":", ":" >>), Plus(Class("\\w")) >>)),
           Opt(Alt(<< Lit(<< ":", ":", "*" >>),
                      Cat(<< Plus(Class("\\s")), Lit(<< "a", "s" >>), Plus(Class("\\s")),
                             Plus(Class("\\w")) >>) >>)) >>)

sub_modules_match ==
    Cat(<< Star(Cat(<< Lit(<< ":", ":" >>), Plus(Class("\\w")) >>)),
           Opt(Alt(<< Lit(<< ":", ":", "*" >>),
                      Cat(<< Plus(Class("\\s")), Lit(<< "a", "s" >>), Plus(Class("\\s")),
                             Plus(Class("\\w")) >>),
                      Cat(<< Lit(<< ":", ":", "{" >>), braces_level2, Lit(<< "}" >>) >>) >>)) >>)

\* make_multiline_regexp:
\*   use \{\s*(?:(::)?\w+{sub}\s*,\s*)*(::)?{name}{sub}\s*
\*   (?:\s*,\s*(::)?\w+{sub})*\s*,?\s*\};
\* The name is interpolated as it is: no (?i) here.
make_multiline_regexp(name) ==
    Cat(<< Lit(<< "u", "s", "e", " ", "{" >>), Star(Class("\\s")),
           Star(Cat(<< Opt(Lit(<< ":", ":" >>)), Plus(Class("\\w")), sub_modules_match,
                       Star(Class("\\s")), Lit(<< "," >>), Star(Class("\\s")) >>)),
           Opt(Lit(<< ":", ":" >>)), Lit(name), sub_modules_match, Star(Class("\\s")),
           Star(Cat(<< Star(Class("\\s")), Lit(<< "," >>), Star(Class("\\s")),
                       Opt(Lit(<< ":", ":" >>)), Plus(Class("\\w")), sub_modules_match >>)),
           Star(Class("\\s")), Opt(Lit(<< "," >>)), Star(Class("\\s")),
           Lit(<< "}", ";" >>) >>)

(***************************************************************************)
(* The two searchers of Search (grep-searcher) and the sink.               *)
(***************************************************************************)
\* The lines of a text, without their terminator "\n".
RECURSIVE split_lines(_)
split_lines(s) ==
    IF s = << >> THEN << >>
    ELSE LET nl == { i \in DOMAIN s : s[i] = "\n" }
         IN  IF nl = {} THEN << s >>
             ELSE << SubSeq(s, 1, Min(nl) - 1) >>
                      \o split_lines(SubSeq(s, Min(nl) + 1, Len(s)))

\* str::trim
trim(s) ==
    LET kept == { i \in DOMAIN s : ~is_space(s[i]) }
    IN  IF kept = {} THEN << >> ELSE SubSeq(s, Min(kept), Max(kept))


\* Mutant of matched: a match on a comment line counts.
matched_without_filter(mat) == TRUE

\* StopAfterFirstMatch::matched: TRUE when the match sets `found` and stops
\* the search, FALSE when it looks like a comment and the search goes on.
matched(mat) ==
    ~(starts_with(trim(mat), << "/", "/" >>) \/ starts_with(trim(mat), << "/", "/", "!" >>))

\* The leftmost match of r in s at or after position `from`, as << start, end >>
\* (end excluded), or << >>.
find_at(r, s, from) ==
    LET starts == MatchStarts(r, s, from)
    IN  IF starts = {} THEN << >>
        ELSE << Min(starts), Max(Ends(r, s, Min(starts))) >>

\* lines::locate: the range of the whole lines that hold a match.
locate(s, mat) ==
    LET line_start ==
            Max({ 1 } \cup { k + 1 : k \in { i \in DOMAIN s : i < mat[1] /\ s[i] = "\n" } })
        line_end ==
            IF mat[2] > line_start /\ s[mat[2] - 1] = "\n" THEN mat[2]
            ELSE Min({ Len(s) + 1 }
                       \cup { k + 1 : k \in { i \in DOMAIN s : i >= mat[2] /\ s[i] = "\n" } })
    IN  << line_start, line_end >>

region(s, range) == SubSeq(s, range[1], range[2] - 1)

(***************************************************************************)
(* The texts searched: for a crate identifier N, source texts of each of   *)
(* the forms a crate is referred to, or looks as if it were.               *)
(***************************************************************************)
Log == << "L", "o", "g" >>
s_1 == << "s", "_", "1" >>
CrateNames == { log, Log, s_1 }

\* The identifiers of CrateNames that differ from N in letter case only.
SameButCase(N) == { M \in CrateNames : M # N /\ to_lowercase(M) = to_lowercase(N) }

\* The simple forms: a `use`, an `extern crate`, a qualified path.
SimpleUsages(N) ==
    { << "u", "s", "e", " " >> \o N \o << ";" >>,
      << "u", "s", "e", " ", ":", ":" >> \o N \o << ";" >>,
      << "u", "s", "e", " " >> \o N \o << ":", ":", "*", ";" >>,
      << "u", "s", "e", " " >> \o N \o << ":", ":", "i", "n", "f", "o", ";" >>,
      << "u", "s", "e", " " >> \o N \o << ":", ":", "{", "s", "e", "l", "f", "}", ";" >>,
      << "u", "s", "e", " " >> \o N \o << " ", "a", "s", " ", "l", "g", ";" >>,
      << "e", "x", "t", "e", "r", "n", " ", "c", "r", "a", "t", "e", " " >> \o N \o << ";" >>,
      << "e", "x", "t", "e", "r", "n", " ", "c", "r", "a", "t", "e", " " >> \o N \o << " ", "a", "s", " ", "l", "g" >>,
      N \o << ":", ":", "f", "o", "o", "(", ")" >> }

\* N as a proper part of a longer identifier, or as a non-root segment.
ProperParts(N) ==
    { << "u", "s", "e", " ", "f" >> \o N \o << ";" >>,
      << "u", "s", "e", " " >> \o N \o << "_", "o", "n", "c", "e", ";" >>,
      << "u", "s", "e", " " >> \o N \o << "_", "o", "n", "c", "e", ":", ":", "i", "n", "f", "o", ";" >>,
      << "u", "s", "e", " " >> \o N \o << "_" >> \o N \o << ":", ":", "i", "n", "f", "o", ";" >>,
      << "f" >> \o N \o << ":", ":", "f", "o", "o", "(", ")" >>,
      << "u", "s", "e", " ", ":", ":", "f" >> \o N \o << ";" >>,
      << "u", "s", "e", " ", ":" >> \o N \o << ";" >>,
      << "u", "s", "e", " ", "o", "t", "h", "e", "r", ":", ":" >> \o N \o << ":", ":", "i", "n", "f", "o", ";" >> }

\* A compound import of the given elements, on one line or one per line.
RECURSIVE join(_, _, _)
join(elements, before, after) ==
    IF elements = << >> THEN << >>
    ELSE before \o Head(elements) \o after \o join(Tail(elements), before, after)

group(elements, multi_line) ==
    IF multi_line
    THEN << "p", "u", "b", " ", "u", "s", "e", " ", "{", "\n" >> \o join(elements, << " ", " ", " ", " " >>, << ",", "\n" >>) \o << "}", ";", "\n" >>
    ELSE << "u", "s", "e", " ", "{", " " >> \o Head(elements) \o join(Tail(elements), << ",", " " >>, << >>) \o << " ", "}", ";" >>

\* N as an element of the group, and siblings with braces nested one to
\* four levels deep.
TopLevelElements(N) ==
    { N, << ":", ":" >> \o N, N \o << " ", "a", "s", " ", "l", "g" >>, N \o << ":", ":", "s", "u", "b", ":", ":", "*" >>, N \o << ":", ":", "{", "a", ",", " ", "b", "}" >> }

Siblings ==
    { << "a" >>, << ":", ":", "a" >>, << "a", ":", ":", "b", ":", ":", "*" >>, << "a", " ", "a", "s", " ", "b" >>, << "a", ":", ":", "{", "b", ",", " ", "c", " ", "a", "s", " ", "d", "}" >>,
      << "a", ":", ":", "{", "b", ":", ":", "{", "c", "}", ",", " ", "d", "}" >>, << "a", ":", ":", "{", "b", ":", ":", "{", "c", ":", ":", "{", "d", "}", "}", "}" >>, << "a", ":", ":", "{", "b", ":", ":", "{", "c", ":", ":", "{", "d", ":", ":", "{", "e", ",", " ", "f", "}", "}", "}", "}" >> }


SiblingsAfter == { << >>, << << "b", ":", ":", "{", "c", ",", " ", "d", "}" >> >> }

CompoundTopLevel(N) ==
    { group(before \o << e >> \o after, multi_line) :
        e \in TopLevelElements(N),
        before \in { << >> } \cup { << e >> : e \in Siblings },
        after \in SiblingsAfter,
        multi_line \in BOOLEAN }

BareCompound(N) ==
    { group(<< e >>, multi_line) : e \in TopLevelElements(N), multi_line \in BOOLEAN }

\* N below another path of the group.
NestedElements(N) ==
    { << "o", "t", "h", "e", "r", ":", ":" >> \o N,
      << "o", "t", "h", "e", "r", ":", ":" >> \o N \o << ":", ":", "{", "a", ",", " ", "b", "}" >>,
      << "o", "t", "h", "e", "r", ":", ":", "{" >> \o N \o << "}" >>,
      << "o", "t", "h", "e", "r", ":", ":", "{", "a", ",", " " >> \o N \o << "}" >>,
      << "o", "t", "h", "e", "r", ":", ":", "{" >> \o N \o << " ", "a", "s", " ", "l", "g", "}" >>,
      << "o", "t", "h", "e", "r", ":", ":", "{" >> \o N \o << ":", ":", "i", "n", "f", "o", "}" >> }

CompoundNested(N) ==
    { group(before \o << e >> \o after, multi_line) :
        e \in NestedElements(N), before \in { << >>, << << "a" >> >> },
        after \in SiblingsAfter, multi_line \in BOOLEAN }

\* A group without N, and N in a closure after the end of the group.
AfterGroupEnd(N) ==
    { << "u", "s", "e", " ", "{", "\n", " ", " ", " ", " ", "x", " ", "a", "s", " ", "y", "\n", "}", ";", "\n", "f", "n", " ", "m", "a", "i", "n", "(", ")", " ", "{", "\n", " ", " ", " ", " ", "l", "e", "t", " ", "f", " ", "=", " ", "|" >> \o N
          \o << ":", " ", "u", "3", "2", "|", " ", "{", "\n", " ", " ", " ", " ", " ", " ", " ", " " >> \o N \o << " ", "a", "s", " ", "l", "g", "\n", " ", " ", " ", " ", "}", ";", "\n", "}", "\n" >> }

\* Usages on comment lines only, and a comment line followed by a usage.
CommentMarks == { << "/", "/", " " >>, << " ", " ", " ", " ", "/", "/", "/", " " >>, << "/", "/", "!", " " >> }

CommentedOut(N) ==
    { mark \o text : mark \in CommentMarks,
                     text \in SimpleUsages(N) \cup { group(<< N >>, FALSE) } }
        \cup { << "/", "/", " ", "s", "e", "e", "\n" >> \o mark \o text \o << "\n", "f", "n", " ", "f", "(", ")", " ", "{", "}", "\n" >> :
                 mark \in CommentMarks, text \in { << "u", "s", "e", " " >> \o N \o << ";" >> } }

CommentThenUsage(N) ==
    { mark \o commented \o << "\n" >> \o text :
        mark \in CommentMarks,
        commented \in { << "u", "s", "e", " " >> \o N \o << ";" >>, group(<< N >>, FALSE) },
        text \in { << "u", "s", "e", " " >> \o N \o << ";" >>, << " ", " ", " ", " " >> \o N \o << ":", ":", "f", "o", "o", "(", ")", ";" >>,
                   group(<< N >>, FALSE), group(<< << "a" >>, N >>, TRUE) } }

\* The same usages, written with an identifier that differs in case only.
CaseVariedSimple(N) == UNION { SimpleUsages(M) : M \in SameButCase(N) }
CaseVariedCompound(N) == UNION { BareCompound(M) : M \in SameButCase(N) }

\* The simple forms with a keyword written in another case.
KeywordCaseVaried(N) ==
    { << "U", "s", "e", " " >> \o N \o << ";" >>,
      << "U", "S", "E", " " >> \o N \o << ";" >>,
      << "u", "s", "e", " " >> \o N \o << " ", "A", "S", " ", "l", "g", ";" >>,
      << "E", "x", "t", "e", "r", "n", " ", "c", "r", "a", "t", "e", " " >> \o N \o << ";" >>,
      << "e", "x", "t", "e", "r", "n", " ", "C", "r", "a", "t", "e", " " >> \o N \o << " ", "a", "s", " ", "l", "g" >>,
      << "U", "s", "e", " ", "{", " " >> \o N \o << " ", "}", ";" >> }

\* Paths written with a leading path separator, after a non-word character
\* and as the first text of a line.
LeadingSeparatorPaths(N) ==
    { << " ", ":", ":" >> \o N \o << ":", ":", "m", "o", "d", "1" >>,
      << "l", "e", "t", " ", "x", " ", "=", " ", ":", ":" >> \o N \o << ":", ":", "I", "t", "e", "m", ":", ":", "n", "e", "w", "(", ")", ";" >>,
      << "f", "o", "o", "(", ":", ":" >> \o N \o << ":", ":", "b", "a", "r", "(", ")", ")", ";" >>,
      << ":", ":" >> \o N \o << ":", ":", "m", "o", "d", "1" >>,
      << "f", "n", " ", "f", "(", ")", " ", "{", "\n", ":", ":" >> \o N \o << ":", ":", "i", "n", "i", "t", "(", ")", ";", "\n", "}" >> }

Contents(N) ==
    SimpleUsages(N) \cup ProperParts(N) \cup CompoundTopLevel(N) \cup CompoundNested(N)
        \cup AfterGroupEnd(N) \cup CommentedOut(N) \cup CommentThenUsage(N)
        \cup CaseVariedSimple(N) \cup CaseVariedCompound(N) \cup KeywordCaseVaried(N)
        \cup LeadingSeparatorPaths(N)

(***************************************************************************)
(* Search::search_string / search_path: try_singleline_then_multiline on   *)
(* one text, and the calls find_unused makes on one Search, file after     *)
(* file.                                                                   *)
(***************************************************************************)
\* A call that begins: the line phase is entered with the sink as it is.
CallBegun(found) == [found_at_start |-> found, trace |-> << "line" >>]

SearchIdle ==
    /\ crate_name = log
    /\ haystack = << >>
    /\ search_pc = "idle"
    /\ line_idx = 1
    /\ multiline_pos = 1
    /\ last_match = << >>
    /\ sink_found = FALSE
    /\ search_ret = "Running"
    /\ rest_paths = << >>
    /\ call = CallBegun(FALSE)

\* search_string on a new Search.
SearchInit ==
    /\ crate_name \in CrateNames
    /\ haystack \in Contents(crate_name)
    /\ search_pc = "line"
    /\ line_idx = 1
    /\ multiline_pos = 1
    /\ last_match = << >>
    /\ sink_found = FALSE
    /\ search_ret = "Running"
    /\ rest_paths = << >>
    /\ call = CallBegun(FALSE)

\* The line searcher on one line: a line that matches is given to the sink,
\* which stops the search unless the line looks like a comment.
line_searcher_step ==
    /\ search_pc = "line"
    /\ line_idx <= Len(split_lines(haystack))
    /\ LET line == split_lines(haystack)[line_idx]
       IN  IF is_match(make_line_regexp(crate_name), line) /\ matched(line)
           THEN /\ sink_found' = TRUE
                /\ search_pc' = "done"
                /\ search_ret' = "true"
                /\ call' = [call EXCEPT !.trace = Append(call.trace, "hit")]
                /\ UNCHANGED line_idx
           ELSE /\ line_idx' = line_idx + 1
                /\ UNCHANGED << sink_found, search_pc, search_ret, call >>
    /\ UNCHANGED << crate_name, haystack, multiline_pos, last_match, rest_paths >>
    /\ UNCHANGED beside_search

\* The line searcher is through: `if self.sink.found` the call returns
\* Ok(true), else the multi-line searcher is tried.
try_multiline ==
    /\ search_pc = "line"
    /\ line_idx > Len(split_lines(haystack))
    /\ IF sink_found
       THEN /\ search_pc' = "done"
            /\ search_ret' = "true"
            /\ UNCHANGED call
       ELSE /\ search_pc' = "multiline"
            /\ call' = [call EXCEPT !.trace = Append(call.trace, "multiline")]
            /\ UNCHANGED search_ret
    /\ UNCHANGED << crate_name, haystack, line_idx, multiline_pos, last_match, sink_found,
                    rest_paths >>
    /\ UNCHANGED beside_search

\* One round of the multi-line searcher: the next match is located; its
\* lines are joined to those of the last match when they overlap, else the
\* last match is given to the sink.
multiline_searcher_step ==
    /\ search_pc = "multiline"
    /\ multiline_pos <= Len(haystack)
    /\ LET mat == find_at(make_multiline_regexp(crate_name), haystack, multiline_pos)
       IN  IF mat = << >>
           THEN /\ multiline_pos' = Len(haystack) + 1
                /\ UNCHANGED << last_match, sink_found, search_pc, search_ret, call >>
           ELSE LET lines == locate(haystack, mat)
                IN  /\ multiline_pos' = mat[2]
                    /\ IF last_match = << >>
                       THEN /\ last_match' = lines
                            /\ UNCHANGED << sink_found, search_pc, search_ret, call >>
                       ELSE IF last_match[2] > lines[1]
                       THEN /\ last_match' = << last_match[1], lines[2] >>
                            /\ UNCHANGED << sink_found, search_pc, search_ret, call >>
                       ELSE /\ last_match' = lines
                            /\ IF matched(region(haystack, last_match))
                               THEN /\ sink_found' = TRUE
                                    /\ search_pc' = "done"
                                    /\ search_ret' = "true"
                                    /\ call' = [call EXCEPT
                                                   !.trace = Append(call.trace, "hit")]
                               ELSE UNCHANGED << sink_found, search_pc, search_ret, call >>
    /\ UNCHANGED << crate_name, haystack, line_idx, rest_paths >>
    /\ UNCHANGED beside_search

\* The end of the text: the last match, if any, is given to the sink and the
\* search returns Ok(sink.found).
multiline_searcher_end ==
    /\ search_pc = "multiline"
    /\ multiline_pos > Len(haystack)
    /\ LET hit == last_match # << >> /\ matched(region(haystack, last_match))
       IN  /\ sink_found' = (sink_found \/ hit)
           /\ call' = IF hit THEN [call EXCEPT !.trace = Append(call.trace, "hit")]
                      ELSE call
    /\ search_ret' = (IF sink_found' THEN "true" ELSE "false")
    /\ search_pc' = "done"
    /\ UNCHANGED << crate_name, haystack, line_idx, multiline_pos, last_match, rest_paths >>
    /\ UNCHANGED beside_search

SearchNext ==
    \/ line_searcher_step
    \/ try_multiline
    \/ multiline_searcher_step
    \/ multiline_searcher_end

\* The calls of find_unused on one Search: `for path in &paths`, each file
\* readable or not.
MaxCalls == 3

File(text, readable) == [text |-> text, readable |-> readable]

ScanFiles ==
    { File(<< "f", "n", " ", "m", "a", "i", "n", "(", ")", " ", "{", "}" >>, TRUE),
      File(<< "u", "s", "e", " ", "l", "o", "g", ":", ":", "i", "n", "f", "o", ";" >>, TRUE),
      File(<< "/", "/", " ", "u", "s", "e", " ", "l", "o", "g", ":", ":", "i", "n", "f", "o", ";" >>, TRUE),
      File(<< "u", "s", "e", " ", "{", "\n", " ", " ", " ", " ", "a", ",", "\n", " ", " ", " ", " ", "l", "o", "g", ",", "\n", "}", ";" >>, TRUE),
      File(<< "/", "/", " ", "u", "s", "e", " ", "l", "o", "g", ";", "\n", "u", "s", "e", " ", "{", " ", "a", ":", ":", "{", "b", ",", " ", "c", "}", ",", " ", "l", "o", "g", " ", "a", "s", " ", "l", " ", "}", ";" >>, TRUE),
      File(<< >>, FALSE) }

ScanInit ==
    /\ crate_name = log
    /\ haystack = << >>
    /\ search_pc = "new"
    /\ line_idx = 1
    /\ multiline_pos = 1
    /\ last_match = << >>
    /\ sink_found = FALSE
    /\ search_ret = "Running"
    /\ rest_paths \in SeqsUpTo(ScanFiles, MaxCalls)
    /\ call = CallBegun(FALSE)

\* Mutant of loop_breaks: the loop goes on after Ok(true).
loop_never_breaks(result) == FALSE

\* The match on the result of search_path: Ok(true) breaks the loop.
loop_breaks(result) == result = "true"

\* `for path in &paths` calls search.search_path(path): the two searchers
\* start anew on the file, the sink is the one of the Search.  A file that
\* cannot be opened makes the line searcher fail, and the call return Err.
search_next_path ==
    /\ search_pc \in { "new", "done" }
    /\ search_pc = "done" => ~loop_breaks(search_ret)
    /\ rest_paths # << >>
    /\ rest_paths' = Tail(rest_paths)
    /\ call' = CallBegun(sink_found)
    /\ line_idx' = 1
    /\ multiline_pos' = 1
    /\ last_match' = << >>
    /\ IF Head(rest_paths).readable
       THEN /\ haystack' = Head(rest_paths).text
            /\ search_pc' = "line"
            /\ search_ret' = "Running"
       ELSE /\ haystack' = << >>
            /\ search_pc' = "done"
            /\ search_ret' = "Err"
    /\ UNCHANGED << crate_name, sink_found >>
    /\ UNCHANGED beside_search

ScanNext ==
    \/ search_next_path
    \/ line_searcher_step
    \/ try_multiline
    \/ multiline_searcher_step
    \/ multiline_searcher_end

(***************************************************************************)
(* collect_paths (src/src/search_unused.rs): the source files of a         *)
(* package.  A path is the sequence of its components.                     *)
(***************************************************************************)

\* What the manifest declares: the path of [lib], if any, and the products
\* ([[bin]], [[bench]], [[test]], [[example]]), each with or without a path.
Targets(lib, products) == [lib |-> lib, products |-> products]

TargetsOptions ==
    { Targets(lib, products) :
        lib \in { NoName,
                  << << "s", "r", "c" >>, << "l", "i", "b", ".", "r", "s" >> >>,
                  << << "l", "i", "b", ".", "r", "s" >> >>,
                  << << "g", "e", "n" >>, << "l", "i", "b", ".", "r", "s", ".", "i", "n" >> >> },
        products \in SUBSET
            { NoName,
              << << "s", "r", "c" >>, << "b", "i", "n" >>,
                 << "t", "o", "o", "l", ".", "r", "s" >> >>,
              << << "b", "e", "n", "c", "h", "e", "s" >>,
                 << "b", "e", "n", "c", "h", ".", "r", "s" >> >> } }

\* An entry of the package directory: a regular file, a directory or a
\* symbolic link.
Entry(path, type) == [path |-> path, type |-> type]

FullTree ==
    << Entry(<< >>, "dir"),
       Entry(<< << "l", "i", "b", ".", "r", "s" >> >>, "file"),
       Entry(<< << "s", "r", "c" >> >>, "dir"),
       Entry(<< << "s", "r", "c" >>, << "l", "i", "b", ".", "r", "s" >> >>, "file"),
       Entry(<< << "s", "r", "c" >>, << "m", "a", "i", "n", ".", "r", "s" >> >>, "file"),
       Entry(<< << "s", "r", "c" >>, << "n", "o", "t", "e", "s", ".", "t", "x", "t" >> >>, "file"),
       Entry(<< << "s", "r", "c" >>, << "M", "a", "k", "e", "f", "i", "l", "e" >> >>, "file"),
       Entry(<< << "s", "r", "c" >>, << ".", "r", "s" >> >>, "file"),
       Entry(<< << "s", "r", "c" >>, << "l", "i", "n", "k", ".", "r", "s" >> >>, "symlink"),
       Entry(<< << "s", "r", "c" >>, << "g", "e", "n", ".", "r", "s" >> >>, "dir"),
       Entry(<< << "s", "r", "c" >>, << "g", "e", "n", ".", "r", "s" >>, << "m", "a", "i", "n", ".", "r", "s" >> >>, "file"),
       Entry(<< << "s", "r", "c" >>, << "b", "i", "n" >> >>, "dir"),
       Entry(<< << "s", "r", "c" >>, << "b", "i", "n" >>, << "t", "o", "o", "l", ".", "r", "s" >> >>, "file"),
       Entry(<< << "b", "e", "n", "c", "h", "e", "s" >> >>, "dir"),
       Entry(<< << "b", "e", "n", "c", "h", "e", "s" >>, << "b", "e", "n", "c", "h", ".", "r", "s" >> >>, "file"),
       Entry(<< << "t", "a", "r", "g", "e", "t" >> >>, "dir"),
       Entry(<< << "t", "a", "r", "g", "e", "t" >>, << "g", "e", "n", ".", "r", "s" >> >>, "file") >>

\* The entries of a sequence that pass a test, in their order.
RECURSIVE Filter(_, _)
Filter(entries, keep) ==
    IF entries = << >> THEN << >>
    ELSE (IF Head(entries) \in keep THEN << Head(entries) >> ELSE << >>)
             \o Filter(Tail(entries), keep)

\* The directories of the inputs, their entries in the order of a walk.
Trees ==
    { FullTree,
      Filter(FullTree, { e \in Range(FullTree) : e.path = << >> \/ e.path[1] # << "s", "r", "c" >> }),
      Filter(FullTree, { e \in Range(FullTree) : e.path = << >> \/ e.path[1] = << "s", "r", "c" >> }) }

\* PathBuf::pop: the path without its last component.
pop(path) == SubSeq(path, 1, Len(path) - 1)

\* Path::extension: what follows the last dot of the file name, unless the
\* name has no dot or only begins with one.
extension(path) ==
    LET file_name == path[Len(path)]
        dots == { i \in DOMAIN file_name : file_name[i] = "." }
    IN  IF path = << >> \/ dots = {} THEN NoName
        ELSE IF Max(dots) = 1 THEN NoName
        ELSE SubSeq(file_name, Max(dots) + 1, Len(file_name))

\* The root paths: the parents of the declared paths, or src/.
declared_roots(t) ==
    (IF t.lib # NoName THEN { pop(t.lib) } ELSE {})
        \cup { pop(p) : p \in { q \in t.products : q # NoName } }

\* WalkDir::new(dir_path.join(root)): the root and all that is below it.
WalkDir(root, entries) ==
    Filter(entries, { e \in Range(entries) : starts_with(e.path, root) })

\* Mutant of keep_entry: the file type is not looked at.
keep_any_type(e) == extension(e.path) = << "r", "s" >>

\* The filter_map of collect_paths: regular files with the extension "rs".
keep_entry(e) == e.type = "file" /\ extension(e.path) = << "r", "s" >>

CollectIdle ==
    /\ targets = Targets(NoName, {})
    /\ tree = << >>
    /\ collect_pc = "idle"
    /\ root_paths = {}
    /\ walked = {}
    /\ found_paths = << >>

CollectInit ==
    /\ targets \in TargetsOptions
    /\ tree \in Trees
    /\ collect_pc = "roots"
    /\ root_paths = {}
    /\ walked = {}
    /\ found_paths = << >>

\* The assertion on a declared path: it ends in ".rs".
is_rust_file(path) == ends_with(path[Len(path)], << ".", "r", "s" >>)

\* The parents of the lib path and of the product paths are inserted, unless
\* the assertion on one of them fails.
insert_declared_roots ==
    /\ collect_pc = "roots"
    /\ IF \A path \in ({ targets.lib } \cup targets.products) \ { NoName } :
              is_rust_file(path)
       THEN root_paths' = declared_roots(targets) /\ collect_pc' = "default"
       ELSE root_paths' = root_paths /\ collect_pc' = "panicked"
    /\ UNCHANGED << targets, tree, walked, found_paths >>
    /\ UNCHANGED beside_collect

\* `if root_paths.is_empty()`: src/ is assumed.
insert_default_root ==
    /\ collect_pc = "default"
    /\ root_paths' = (IF root_paths = {} THEN { << << "s", "r", "c" >> >> } ELSE root_paths)
    /\ collect_pc' = "walk"
    /\ UNCHANGED << targets, tree, walked, found_paths >>
    /\ UNCHANGED beside_collect

\* flat_map: one root is walked and the entries that pass the filter are
\* kept, in the order of the walk.
walk_root(root) ==
    /\ collect_pc = "walk"
    /\ root \in root_paths \ walked
    /\ LET kept == Filter(WalkDir(root, tree), { e \in Range(tree) : keep_entry(e) })
       IN  found_paths' = found_paths \o [i \in DOMAIN kept |-> kept[i].path]
    /\ walked' = walked \cup { root }
    /\ UNCHANGED << targets, tree, collect_pc, root_paths >>
    /\ UNCHANGED beside_collect

collect_paths_return ==
    /\ collect_pc = "walk"
    /\ walked = root_paths
    /\ collect_pc' = "returned"
    /\ UNCHANGED << targets, tree, root_paths, walked, found_paths >>
    /\ UNCHANGED beside_collect

CollectNext ==
    \/ insert_declared_roots
    \/ insert_default_root
    \/ \E root \in root_paths : walk_root(root)
    \/ collect_paths_return

(***************************************************************************)
(* The fix of one manifest (src/src/main.rs): the file is read,            *)
(* remove_dependencies edits the document, the result is written back.     *)
(***************************************************************************)
cfg_unix == << "c", "f", "g", "(", "u", "n", "i", "x", ")" >>

FixDep(k, kd, t) == Dep(k, IF k = log THEN "log 0.4" ELSE "log 0.3", kd, t)

FixDepSpecs ==
    { FixDep(k, tb[2], tb[1]) :
        k \in { log, tracing },
        tb \in { << NoName, "normal" >>, << NoName, "dev" >>, << cfg_unix, "normal" >>,
                 << cfg_unix, "build" >>, << wasm32_wasi, "normal" >> } }

FixManifests == { ds \in SUBSET FixDepSpecs : Cardinality(ds) <= MaxDeps }

\* The lists run_machete passes: the `unused` of an analysis, not empty and
\* without duplicates.
DependencyLists == { << log >>, << tracing >>, << log, tracing >>, << tracing, log >> }

\* Mutant of remove_one: a name that no table holds is not an error.
remove_one_lenient(doc, tables, dep) ==
    [ok |-> TRUE, doc |-> { d \in doc : ~(d.key = dep /\ TableOf(d) \in tables) }]

\* One round of `for dep in dependency_list`: the name is removed from every
\* matched table that holds it; removed_one stays false when none does.
remove_one(doc, tables, dep) ==
    LET removed == { d \in doc : d.key = dep /\ TableOf(d) \in tables }
    IN  [ok |-> removed # {}, doc |-> doc \ removed]

NoError == [dep |-> NoName, tables |-> {}]

FixIdle ==
    /\ manifest_file = {}
    /\ manifest_before = {}
    /\ to_remove = << >>
    /\ fix_pc = "idle"
    /\ document = {}
    /\ matched_tables = {}
    /\ dep_idx = 1
    /\ fix_error = NoError

FixInit ==
    /\ manifest_file \in FixManifests
    /\ manifest_before = manifest_file
    /\ to_remove \in DependencyLists
    /\ fix_pc = "read"
    /\ document = {}
    /\ matched_tables = {}
    /\ dep_idx = 1
    /\ fix_error = NoError

\* fs::read_to_string, DocumentMut::from_str and get_table_deps.
read_manifest ==
    /\ fix_pc = "read"
    /\ document' = manifest_file
    /\ matched_tables' = get_table_deps(manifest_file)
    /\ fix_pc' = "remove"
    /\ UNCHANGED << manifest_file, manifest_before, to_remove, dep_idx, fix_error >>
    /\ UNCHANGED beside_fix

\* One round of `for dep in dependency_list`; a name that was not removed
\* makes remove_dependencies bail, and run_machete return, before the write.
remove_dep ==
    /\ fix_pc = "remove"
    /\ dep_idx <= Len(to_remove)
    /\ LET round == remove_one(document, matched_tables, to_remove[dep_idx])
       IN  /\ document' = round.doc
           /\ IF round.ok
              THEN /\ dep_idx' = dep_idx + 1
                   /\ UNCHANGED << fix_pc, fix_error >>
              ELSE /\ fix_error' = [dep |-> to_remove[dep_idx], tables |-> matched_tables]
                   /\ fix_pc' = "failed"
                   /\ UNCHANGED dep_idx
    /\ UNCHANGED << manifest_file, manifest_before, to_remove, matched_tables >>
    /\ UNCHANGED beside_fix

\* Ok(manifest.to_string()), then fs::write, which may fail (a panic).
write_manifest(write_ok) ==
    /\ fix_pc = "remove"
    /\ dep_idx > Len(to_remove)
    /\ IF write_ok
       THEN manifest_file' = document /\ fix_pc' = "written"
       ELSE manifest_file' = manifest_file /\ fix_pc' = "panicked"
    /\ UNCHANGED << manifest_before, to_remove, document, matched_tables, dep_idx,
                    fix_error >>
    /\ UNCHANGED beside_fix

FixNext ==
    \/ read_manifest
    \/ remove_dep
    \/ \E write_ok \in BOOLEAN : write_manifest(write_ok)

(***************************************************************************)
(* collect_paths (src/src/main.rs): the discovery of the manifests below   *)
(* an input path by the walker of the `ignore` crate.  A path is the       *)
(* sequence of its components below the current directory.                 *)
(***************************************************************************)
CollectPathOptions(skip, respect, override) ==
    [skip_target_dir |-> skip, respect_ignore_files |-> respect,
     override_respect_git_ignore |-> override]

OptionsGiven ==
    { CollectPathOptions(skip, respect, override) :
        skip \in BOOLEAN, respect \in BOOLEAN,
        override \in { "None", "Some(true)", "Some(false)" } }

\* The tree below the current directory, its entries in the order of a
\* walk, and the rules of the ignore files it holds: ./.ignore excludes
\* `vendor`, ./.gitignore excludes `build`.
WorkTree ==
    << Entry(<< >>, "dir"),
       Entry(<< << "C", "a", "r", "g", "o", ".", "t", "o", "m", "l" >> >>, "file"),
       Entry(<< << ".", "i", "g", "n", "o", "r", "e" >> >>, "file"),
       Entry(<< << ".", "c", "a", "r", "g", "o" >> >>, "dir"),
       Entry(<< << ".", "c", "a", "r", "g", "o" >>, << "C", "a", "r", "g", "o", ".", "t", "o", "m", "l" >> >>, "file"),
       Entry(<< << "v", "e", "n", "d", "o", "r" >> >>, "dir"),
       Entry(<< << "v", "e", "n", "d", "o", "r" >>, << "C", "a", "r", "g", "o", ".", "t", "o", "m", "l" >> >>, "file"),
       Entry(<< << "b", "u", "i", "l", "d" >> >>, "dir"),
       Entry(<< << "b", "u", "i", "l", "d" >>, << "C", "a", "r", "g", "o", ".", "t", "o", "m", "l" >> >>, "file"),
       Entry(<< << "t", "a", "r", "g", "e", "t" >> >>, "dir"),
       Entry(<< << "t", "a", "r", "g", "e", "t" >>, << "C", "a", "r", "g", "o", ".", "t", "o", "m", "l" >> >>, "file"),
       Entry(<< << "t", "a", "r", "g", "e", "t" >>, << "p", "a", "c", "k", "a", "g", "e" >> >>, "dir"),
       Entry(<< << "t", "a", "r", "g", "e", "t" >>, << "p", "a", "c", "k", "a", "g", "e" >>, << "C", "a", "r", "g", "o", ".", "t", "o", "m", "l" >> >>, "file"),
       Entry(<< << "s", "u", "b" >> >>, "dir"),
       Entry(<< << "s", "u", "b" >>, << "C", "a", "r", "g", "o", ".", "t", "o", "m", "l" >> >>, "file"),
       Entry(<< << "s", "u", "b" >>, << "C", "a", "r", "g", "o", ".", "l", "o", "c", "k" >> >>, "file"),
       Entry(<< << "s", "u", "b" >>, << "t", "a", "r", "g", "e", "t" >> >>, "dir"),
       Entry(<< << "s", "u", "b" >>, << "t", "a", "r", "g", "e", "t" >>, << "C", "a", "r", "g", "o", ".", "t", "o", "m", "l" >> >>, "file") >>

IgnoreRule(file, dir, name) == [file |-> file, dir |-> dir, name |-> name]

IgnoreRules ==
    { IgnoreRule(".ignore", << >>, << "v", "e", "n", "d", "o", "r" >>),
      IgnoreRule(".gitignore", << >>, << "b", "u", "i", "l", "d" >>) }

StartPaths ==
    { << >>, << << "s", "u", "b" >> >>, << << "v", "e", "n", "d", "o", "r" >> >>, << << "t", "a", "r", "g", "e", "t" >> >>,
      << << "t", "a", "r", "g", "e", "t" >>, << "p", "a", "c", "k", "a", "g", "e" >> >> }

Repositories ==
    { [in_git |-> g, unreadable |-> u] :
        g \in BOOLEAN, u \in { {}, { << << "t", "a", "r", "g", "e", "t" >>, << "p", "a", "c", "k", "a", "g", "e" >> >> } } }

\* builder.standard_filters(yes) switches the hidden filter, the ignore
\* files, those of the parent directories and the git ignore files on or
\* off together; builder.git_ignore(val) then overrides the last.
standard_filters(o) ==
    [hidden |-> o.respect_ignore_files, parents |-> o.respect_ignore_files,
     ignore |-> o.respect_ignore_files,
     git_ignore |-> IF o.override_respect_git_ignore = "None"
                    THEN o.respect_ignore_files
                    ELSE o.override_respect_git_ignore = "Some(true)"]

\* A rule of an ignore file excludes the entries of its name in and below
\* the directory of the file; the rules of a .gitignore count in a git
\* repository only, those of the files above the walked path with `parents`.
rule_applies(r, filters, repo, from) ==
    /\ \/ r.file = ".ignore" /\ filters.ignore
       \/ r.file = ".gitignore" /\ filters.git_ignore /\ repo.in_git
    /\ filters.parents \/ starts_with(r.dir, from)

ignored_by_rule(path, filters, repo, from) ==
    \E r \in IgnoreRules :
        /\ rule_applies(r, filters, repo, from)
        /\ starts_with(pop(path), r.dir)
        /\ path[Len(path)] = r.name

\* The closure given to filter_entry: Path::ends_with compares whole
\* components.
filter_entry(path) == ~(path # << >> /\ path[Len(path)] = << "t", "a", "r", "g", "e", "t" >>)

\* Mutant of skip_entry: the closure of filter_entry is never installed.
skip_entry_without_filter(path, o, repo, from) ==
    /\ Len(path) > Len(from)
    /\ \/ standard_filters(o).hidden /\ Head(path[Len(path)]) = "."
       \/ ignored_by_rule(path, standard_filters(o), repo, from)

\* Whether the walker leaves an entry out (and does not descend into it):
\* never the walked path itself; else a hidden name, a name an ignore rule
\* excludes, or a path the filter_entry closure refuses.
skip_entry(path, o, repo, from) ==
    /\ Len(path) > Len(from)
    /\ \/ standard_filters(o).hidden /\ Head(path[Len(path)]) = "."
       \/ ignored_by_rule(path, standard_filters(o), repo, from)
       \/ o.skip_target_dir /\ ~filter_entry(path)

\* DirEntry::file_name: the last component, the path itself for ".".
entry_file_name(path) == IF path = << >> THEN << "." >> ELSE path[Len(path)]

NoWalk == [next |-> 1, pruned |-> {}]
NoEntries == [ret |-> "Running", paths |-> << >>]

DiscoverIdle ==
    /\ options = CollectPathOptions(FALSE, FALSE, "None")
    /\ start_path = << >>
    /\ repository = [in_git |-> FALSE, unreadable |-> {}]
    /\ discover_pc = "idle"
    /\ walker = NoWalk
    /\ walk_result = NoEntries

DiscoverInit ==
    /\ options \in OptionsGiven
    /\ start_path \in StartPaths
    /\ repository \in Repositories
    /\ discover_pc = "build"
    /\ walker = NoWalk
    /\ walk_result = NoEntries

\* WalkBuilder::new(path) .. builder.build(): the walk starts at the path.
build_walker ==
    /\ discover_pc = "build"
    /\ walker' = [next |-> CHOOSE i \in DOMAIN WorkTree : WorkTree[i].path = start_path,
                  pruned |-> {}]
    /\ discover_pc' = "walk"
    /\ UNCHANGED << options, start_path, repository, walk_result >>
    /\ UNCHANGED beside_discover

\* One entry of the walk, through filter, map and collect: an entry below a
\* directory left out is not seen; an entry left out is passed over; a
\* directory that cannot be read gives an error, which ends collect() with
\* Err; else the entry is kept when its name is Cargo.toml.
walker_next ==
    /\ discover_pc = "walk"
    /\ walker.next <= Len(WorkTree)
    /\ starts_with(WorkTree[walker.next].path, start_path)
    /\ LET e == WorkTree[walker.next]
           below_pruned == \E d \in walker.pruned : starts_with(e.path, d)
           skipped == skip_entry(e.path, options, repository, start_path)
       IN  IF below_pruned \/ skipped
           THEN /\ walker' = [next |-> walker.next + 1,
                              pruned |-> IF below_pruned THEN walker.pruned
                                         ELSE walker.pruned \cup { e.path }]
                /\ UNCHANGED << walk_result, discover_pc >>
           ELSE IF e.path \in repository.unreadable
           THEN /\ walk_result' = [ret |-> "Err", paths |-> << >>]
                /\ discover_pc' = "returned"
                /\ UNCHANGED walker
           ELSE /\ walker' = [walker EXCEPT !.next = walker.next + 1]
                /\ walk_result' = IF entry_file_name(e.path) = << "C", "a", "r", "g", "o", ".", "t", "o", "m", "l" >>
                              THEN [walk_result EXCEPT !.paths = Append(walk_result.paths, e.path)]
                              ELSE walk_result
                /\ UNCHANGED discover_pc
    /\ UNCHANGED << options, start_path, repository >>
    /\ UNCHANGED beside_discover

\* The walk is through: collect() gives Ok(entries).
collect_entries ==
    /\ discover_pc = "walk"
    /\ IF walker.next > Len(WorkTree) THEN TRUE
       ELSE ~starts_with(WorkTree[walker.next].path, start_path)
    /\ walk_result' = [walk_result EXCEPT !.ret = "Ok"]
    /\ discover_pc' = "returned"
    /\ UNCHANGED << options, start_path, repository, walker >>
    /\ UNCHANGED beside_discover

DiscoverNext ==
    \/ build_walker
    \/ walker_next
    \/ collect_entries

(***************************************************************************)
(* get_full_manifest (src/src/search_unused.rs): the walk over the parent  *)
(* directories of a package for the manifest of its workspace.  The        *)
(* package directory lies at some depth below the root of the file system; *)
(* a path is absolute or relative to the current directory.                *)
(***************************************************************************)
MaxDepth == 2

\* The directory at depth i is named DirNames[i].
DirNames == << "ws", "crates", "pkg", "sub", "deep" >>

\* What the Cargo.toml of a directory is: no file, a file that does not
\* parse, or a manifest with or without a [workspace] table and the
\* `ignored` list of its workspace.metadata.cargo-machete.
ManifestFile(read, ws) == [read |-> read, workspace |-> ws]

AncestorManifests ==
    { ManifestFile("missing", NoWorkspace), ManifestFile("unparsable", NoWorkspace),
      ManifestFile("ok", NoWorkspace), ManifestFile("ok", Workspace(TRUE, {})),
      ManifestFile("ok", Workspace(TRUE, { log })),
      ManifestFile("ok", Workspace(TRUE, { tracing })) }

PackageManifests == AncestorManifests \ { ManifestFile("missing", NoWorkspace) }

ManifestTrees ==
    UNION { { t \in [0..depth -> AncestorManifests] : t[depth] \in PackageManifests } :
              depth \in 1..MaxDepth }

PackageDepth(t) == Max(DOMAIN t)

PathOf(absolute, comps) == [absolute |-> absolute, comps |-> comps]

\* The paths of the package manifest a walk started in the current
\* directory gives: absolute, relative, or relative with a leading `.`.
ManifestPathsTo(depth, current) ==
    LET below(from) == [i \in 1..(depth - from) |-> DirNames[from + i]]
    IN  { PathOf(TRUE, below(0) \o << "Cargo.toml" >>),
          PathOf(FALSE, below(current) \o << "Cargo.toml" >>),
          PathOf(FALSE, << "." >> \o below(current) \o << "Cargo.toml" >>) }

\* The depth of the directory a path names.
depth_of(p, current) ==
    IF p.absolute THEN Len(p.comps)
    ELSE current + Cardinality({ i \in DOMAIN p.comps : p.comps[i] # "." })

\* PathBuf::pop: false when the path has no parent (`/`, or the empty
\* relative path), else the last component is removed.
while_pop(p, current) ==
    [popped |-> p.comps # << >>,
     path |-> PathOf(p.absolute, SubSeq(p.comps, 1, Len(p.comps) - 1))]

NoResult == [ret |-> "Running", workspace_ignored |-> {}, opened |-> << >>]

ParentsIdle ==
    /\ tree_manifests = [d \in 0..1 |-> ManifestFile("ok", NoWorkspace)]
    /\ current_dir = 0
    /\ manifest_path = PathOf(TRUE, << "ws", "Cargo.toml" >>)
    /\ dir_path = PathOf(TRUE, << >>)
    /\ parents_pc = "idle"
    /\ full_manifest = NoResult

ParentsInit ==
    /\ tree_manifests \in ManifestTrees
    /\ current_dir \in 0..PackageDepth(tree_manifests)
    /\ manifest_path \in ManifestPathsTo(PackageDepth(tree_manifests), current_dir)
    /\ dir_path = manifest_path
    /\ parents_pc = "read"
    /\ full_manifest = NoResult

\* find_unused pops the file name; get_full_manifest reads and parses the
\* manifest of the package, an error is returned with `?`.
read_package_manifest ==
    /\ parents_pc = "read"
    /\ dir_path' = while_pop(manifest_path, current_dir).path
    /\ IF tree_manifests[PackageDepth(tree_manifests)].read = "ok"
       THEN parents_pc' = "while" /\ full_manifest' = full_manifest
       ELSE parents_pc' = "returned" /\ full_manifest' = [full_manifest EXCEPT !.ret = "Err"]
    /\ UNCHANGED << tree_manifests, current_dir, manifest_path >>
    /\ UNCHANGED beside_parents

\* One round of `while dir_path.pop()`: the Cargo.toml of the directory is
\* opened; one that is missing or does not parse, or has no [workspace], is
\* passed over; the first with a [workspace] gives its ignored list and
\* ends the loop.
while_dir_path_pop ==
    /\ parents_pc = "while"
    /\ LET pop_ == while_pop(dir_path, current_dir)
           depth == depth_of(pop_.path, current_dir)
           workspace_manifest == tree_manifests[depth]
       IN  IF ~pop_.popped
           THEN /\ parents_pc' = "complete"
                /\ UNCHANGED << dir_path, full_manifest >>
           ELSE /\ dir_path' = pop_.path
                /\ IF workspace_manifest.read = "ok" /\ workspace_manifest.workspace.found
                   THEN /\ full_manifest' =
                               [full_manifest EXCEPT
                                  !.workspace_ignored = workspace_manifest.workspace.ignored,
                                  !.opened = Append(full_manifest.opened, depth)]
                        /\ parents_pc' = "complete"
                   ELSE /\ full_manifest' =
                               [full_manifest EXCEPT
                                  !.opened = Append(full_manifest.opened, depth)]
                        /\ UNCHANGED parents_pc
    /\ UNCHANGED << tree_manifests, current_dir, manifest_path >>
    /\ UNCHANGED beside_parents

\* manifest.complete_from_path_and_workspace(..)?, which may fail, then
\* Ok((manifest, workspace_ignored)).
complete_manifest(completed) ==
    /\ parents_pc = "complete"
    /\ full_manifest' = [full_manifest EXCEPT !.ret = IF completed THEN "Ok" ELSE "Err"]
    /\ parents_pc' = "returned"
    /\ UNCHANGED << tree_manifests, current_dir, manifest_path, dir_path >>
    /\ UNCHANGED beside_parents

ParentsNext ==
    \/ read_package_manifest
    \/ while_dir_path_pop
    \/ \E completed \in BOOLEAN : complete_manifest(completed)

FindIdle ==
    /\ pkg = VirtualPackage
    /\ with_cargo_metadata = "No"
    /\ pc = "idle"
    /\ ret = "Running"
    /\ workspace_ignored = {}
    /\ metadata = NoMetadata
    /\ paths = << >>
    /\ dependencies = << >>
    /\ task = << >>
    /\ pos = << >>
    /\ found_once = << >>
    /\ results = << >>
    /\ done = << >>
    /\ unused = << >>
    /\ ignored_used = << >>

\* find_unused on one package directory, its tasks interleaved.
Init == FindInit /\ RunIdle /\ SearchIdle /\ CollectIdle /\ FixIdle /\ DiscoverIdle
    /\ ParentsIdle
Next == FindNext
Spec == Init /\ [][Next]_vars

\* A run of the process, the tasks of the manifests interleaved.
InitRun == RunInit /\ FindIdle /\ SearchIdle /\ CollectIdle /\ FixIdle /\ DiscoverIdle
    /\ ParentsIdle
SpecRun == InitRun /\ [][RunNext]_vars

\* One search of a text for a crate identifier.
InitSearch == SearchInit /\ FindIdle /\ RunIdle /\ CollectIdle /\ FixIdle /\ DiscoverIdle
    /\ ParentsIdle
SpecSearch == InitSearch /\ [][SearchNext]_vars

\* One call of collect_paths.
InitCollect == CollectInit /\ FindIdle /\ RunIdle /\ SearchIdle /\ FixIdle /\ DiscoverIdle
    /\ ParentsIdle
SpecCollect == InitCollect /\ [][CollectNext]_vars

\* One fix of a manifest.
InitFix == FixInit /\ FindIdle /\ RunIdle /\ SearchIdle /\ CollectIdle /\ DiscoverIdle
    /\ ParentsIdle
SpecFix == InitFix /\ [][FixNext]_vars

\* The calls of find_unused on one Search, file after file.
InitScan ==
    ScanInit /\ FindIdle /\ RunIdle /\ CollectIdle /\ FixIdle /\ DiscoverIdle
        /\ ParentsIdle
SpecScan == InitScan /\ [][ScanNext]_vars

\* One discovery of the manifests below an input path.
InitDiscover ==
    DiscoverInit /\ FindIdle /\ RunIdle /\ SearchIdle /\ CollectIdle /\ FixIdle
        /\ ParentsIdle
SpecDiscover == InitDiscover /\ [][DiscoverNext]_vars

\* One call of get_full_manifest.
InitParents ==
    ParentsInit /\ FindIdle /\ RunIdle /\ SearchIdle /\ CollectIdle /\ FixIdle
        /\ DiscoverIdle
SpecParents == InitParents /\ [][ParentsNext]_vars

(***************************************************************************)
(* Properties of find_unused.                                              *)
(***************************************************************************)
ReturnedSome == pc = "returned" /\ ret = "OkSome"

NoDuplicates(s) == \A i, j \in DOMAIN s : s[i] = s[j] => i = j

\* C1: every entry d of the dependency map is classified as the ignore-policy
\* table says: d is in `unused` iff no source file matched its crate
\* identifier and d is in neither ignore list; d is in `ignored_used` iff a
\* file matched and d is in the package-level list; otherwise d is in neither.
C1_IgnorePolicy ==
    ReturnedSome =>
        \A t \in DOMAIN dependencies :
            LET d == dependencies[t][1]
                found == \E i \in DOMAIN pkg.files :
                            /\ pkg.files[i].readable
                            /\ \E r \in pkg.files[i].refs :
                                  to_lowercase(r) = to_lowercase(dependencies[t][2])
                pkg_ignored == d \in pkg.ignored
                ws_ignored == pkg.workspace.found /\ d \in pkg.workspace.ignored
            IN  /\ (d \in Range(unused)) <=> (~found /\ ~pkg_ignored /\ ~ws_ignored)
                /\ (d \in Range(ignored_used)) <=> (found /\ pkg_ignored)

\* A dependency found in the sources and ignored at workspace level only is in
\* neither list, next to one that is reported as ignored but used.
C1_Witness ==
    /\ ReturnedSome
    /\ ignored_used # << >>
    /\ \E t \in DOMAIN dependencies :
          /\ found_once[t]
          /\ dependencies[t][1] \in ws_ignored_of(pkg) \ pkg.ignored
          /\ dependencies[t][1] \notin Range(unused) \cup Range(ignored_used)

\* C2: `unused` holds only keys of the runtime dependency table, and
\* `ignored_used` only package-ignored keys of that table, in both modes.
C2_OnlyRuntimeKeys ==
    ReturnedSome =>
        /\ Range(unused) \subseteq RuntimeKeys(pkg.deps)
        /\ Range(ignored_used) \subseteq (pkg.ignored \cap RuntimeKeys(pkg.deps))

\* C3: `unused` and `ignored_used` are disjoint and neither holds a key twice.
C3_DisjointNoDuplicates ==
    ReturnedSome =>
        /\ Range(unused) \cap Range(ignored_used) = {}
        /\ NoDuplicates(unused)
        /\ NoDuplicates(ignored_used)

\* Two resolved edges were given the same key and the key is reported once.
C3_Witness ==
    /\ ReturnedSome
    /\ Len(metadata.deps) = 2
    /\ Len(dependencies) = 1
    /\ Len(unused) = 1

\* C4: the two lists, contents and order, are those of the classification of
\* the map's entries taken in map order, whatever the interleaving of the
\* per-dependency tasks.
C4_ScheduleIndependent ==
    ReturnedSome =>
        /\ unused = analysis_of(pkg, metadata).unused
        /\ ignored_used = analysis_of(pkg, metadata).ignored_used

\* The second task returned before the first and both are reported.
C4_Witness ==
    /\ ReturnedSome
    /\ done = << 2, 1 >>
    /\ Len(unused) = 2

\* C5: in metadata mode every reported key is reported in manifest-only mode
\* too, or is a renamed key.
RenamedKeys(ds) ==
    { d.key : d \in { e \in ds : \/ e.key # PkgName(e.pkg)
                                \/ ExternName(e) # replace(e.key, "-", "_") } }

C5_MetadataAtLeastAsPrecise ==
    (ReturnedSome /\ with_cargo_metadata = "Yes") =>
        \A k \in Range(unused) :
            \/ k \in Range(analysis_of(pkg, NoMetadata).unused)
            \/ k \in RenamedKeys(pkg.deps)

\* C8: in manifest-only mode the map is exactly the runtime keys, each with
\* its hyphens turned into underscores; no crate identifier holds a hyphen,
\* Search::new does not panic, and a hyphenated key whose underscore form a
\* readable file references is not reported.  The map is built after
\* collect_paths has returned, so the property is about the packages whose
\* declared target paths pass the assertion of collect_paths.
Underscored(k, c) ==
    /\ Len(c) = Len(k)
    /\ \A i \in 1..Len(k) : c[i] = (IF k[i] = "-" THEN "_" ELSE k[i])

C8_ManifestOnlyMap ==
    (with_cargo_metadata = "No" /\ pc \in { "par_iter", "returned" }
        /\ paths_are_rust_files(pkg)
        /\ ret \in { "Running", "OkSome", "Panic" }) =>
        /\ { dependencies[t][1] : t \in DOMAIN dependencies } = RuntimeKeys(pkg.deps)
        /\ NoDuplicates([t \in DOMAIN dependencies |-> dependencies[t][1]])
        /\ \A t \in DOMAIN dependencies :
              /\ Underscored(dependencies[t][1], dependencies[t][2])
              /\ "-" \notin Range(dependencies[t][2])
        /\ ret # "Panic"
        /\ ret = "OkSome" =>
              \A k \in RuntimeKeys(pkg.deps) :
                  (\E i \in DOMAIN pkg.files :
                        /\ pkg.files[i].readable
                        /\ \E r \in pkg.files[i].refs : Underscored(k, r))
                      => k \notin Range(unused)

\* `log-once` is declared, a file references log_once, nothing is reported.
C8_Witness ==
    /\ ReturnedSome
    /\ with_cargo_metadata = "No"
    /\ log_once \in RuntimeKeys(pkg.deps)
    /\ \E t \in DOMAIN dependencies :
          dependencies[t][1] = log_once /\ found_once[t]
    /\ log_once \notin Range(unused)

\* C9: in metadata mode every edge of the root node has an entry (key, extern
\* name) in the map, the key being the one its own declaration is written
\* under.
DeclaredKey(ds, id) == (CHOOSE d \in ds : d.pkg = id).key

C9_EveryEdgeUnderItsKey ==
    (metadata.present /\ pc \in { "par_iter", "returned" }) =>
        \A i \in DOMAIN metadata.deps :
            \E t \in DOMAIN dependencies :
                dependencies[t] = << DeclaredKey(pkg.deps, metadata.deps[i].pkg),
                                     metadata.deps[i].name >>

\* C10: `tracing = { package = "log" }` with a source that holds only
\* `log::info!();`.
RenamedInSpec ==
    /\ pkg.parse_ok /\ pkg.has_package
    /\ pkg.deps = { Dep(tracing, "log 0.4", "normal", NoName) }
    /\ pkg.files = << SourceFile({ log }, TRUE) >>

\* C10 as stated: metadata mode reports tracing, manifest-only mode nothing.
C10_AsStated ==
    (RenamedInSpec /\ ReturnedSome) =>
        /\ with_cargo_metadata = "Yes" => unused = << tracing >>
        /\ with_cargo_metadata = "No" => unused = << >>

\* C10 (amended): both modes report unused = ["tracing"].
C10_BothModesReportTracing ==
    (RenamedInSpec /\ ReturnedSome) => unused = << tracing >>

C10_Witness ==
    /\ RenamedInSpec /\ ReturnedSome
    /\ with_cargo_metadata = "No"
    /\ unused = << tracing >>

(***************************************************************************)
(* Properties of a run of the process.                                     *)
(***************************************************************************)
Exited == run_pc = "exited"
Started == cmdline.valid /\ ~cmdline.version

GivenPaths == IF cmdline.paths = << >> THEN << cwd >> ELSE cmdline.paths

UnusedFound == \E a \in analysed : a.unused # << >>
WalkFailed == Started /\ \E i \in DOMAIN GivenPaths : ~GivenPaths[i].walk_ok
FixFailed == fix_failed # "no"
ErrorRaised == ~cmdline.valid \/ WalkFailed \/ FixFailed

\* C6: the exit code is 0 iff the run ended without error and no analysed
\* package had unused dependencies, 1 iff it ended without error and some
\* package had, 2 iff there was an error (argument error, walk error, fix
\* failure); a walk error gives 2 after the remaining paths were processed.
C6_ExitCodes ==
    Exited =>
        /\ (exit_code = 0) <=> (~ErrorRaised /\ ~UnusedFound)
        /\ (exit_code = 1) <=> (~ErrorRaised /\ UnusedFound)
        /\ (exit_code = 2) <=> ErrorRaised
        /\ (WalkFailed /\ ~FixFailed) => path_idx > Len(paths_arg)

\* C7: whatever fails for one package (its manifest does not parse, cargo
\* metadata fails, remove_dependencies refuses its fix), every manifest
\* discovered under every input path has been analysed when the process
\* ends, and reported if it has unused dependencies.
C7_PackageFailureNeverAborts ==
    (Exited /\ Started /\ fix_failed # "write") =>
        \A i \in DOMAIN GivenPaths :
            GivenPaths[i].walk_ok =>
                \A j \in DOMAIN GivenPaths[i].entries :
                    /\ \E a \in analysed : a.at = << i, j >>
                    /\ \A a \in analysed :
                          (a.at = << i, j >> /\ a.unused # << >>) =>
                              \E k \in DOMAIN printed :
                                  /\ printed[k].path_idx = i
                                  /\ printed[k].path = GivenPaths[i].entries[j]

(***************************************************************************)
(* Properties of the search of a text.                                     *)
(***************************************************************************)
SearchDone == search_pc = "done"

\* C11: for every crate identifier N the search reports a usage for each of
\* the simple forms `use N;`, `use ::N;`, `use N::*;`, `use N::item;`,
\* `use N::{self};`, `use N as X;`, `extern crate N;`, `extern crate N as X`
\* and the qualified path `N::foo()`.
C11_SimpleUsagesFound ==
    SearchDone /\ haystack \in SimpleUsages(crate_name) => sink_found

C11_Witness ==
    /\ SearchDone
    /\ crate_name = s_1
    /\ haystack = s_1 \o << ":", ":", "f", "o", "o", "(", ")" >>
    /\ sink_found

\* C12: the search reports no usage when N is only a proper part of a longer
\* identifier or a segment of a path that is not its root.
C12_ProperPartsNotFound ==
    SearchDone /\ haystack \in ProperParts(crate_name) => ~sink_found

C12_Witness ==
    /\ SearchDone
    /\ crate_name = log
    /\ haystack = << "u", "s", "e", " ", "l", "o", "g", "_", "l", "o", "g", ":", ":", "i", "n", "f", "o", ";" >>
    /\ ~sink_found

\* C13: the identifier is matched whatever its letter case in every usage
\* form, simple or compound, on one line or several; the keywords `use`,
\* `as` and `extern crate` are matched in their own case only.
C13_CaseInsensitive ==
    SearchDone =>
        /\ haystack \in CaseVariedSimple(crate_name) \cup CaseVariedCompound(crate_name)
              => sink_found
        /\ haystack \in KeywordCaseVaried(crate_name) => ~sink_found

\* C14: the search reports a usage of N whenever N is a top-level element of
\* a compound import (N, ::N, N as X, N::sub::*, N::{..}), on one line or on
\* several, whatever the sibling elements, their braces nested up to four
\* levels deep.
C14_CompoundTopLevelFound ==
    SearchDone /\ haystack \in CompoundTopLevel(crate_name) => sink_found

C14_Witness ==
    /\ SearchDone
    /\ sink_found
    /\ haystack = group(<< << "a", ":", ":", "{", "b", ":", ":", "{", "c", ":", ":", "{", "d", ":", ":", "{", "e", ",", " ", "f", "}", "}", "}", "}" >>, crate_name, << "b", ":", ":", "{", "c", ",", " ", "d", "}" >> >>, TRUE)
    /\ line_idx > Len(split_lines(haystack))

\* The position after the first `};` at or after position i of s.
FirstGroupEnd(s, i) ==
    Min({ k + 2 : k \in { j \in i..(Len(s) - 1) : s[j] = "}" /\ s[j + 1] = ";" } })

\* C15: inside a compound import N counts at the top level of the group
\* only: a text where N only occurs below another path of the group gives
\* no usage, and a match of the multi-line pattern ends with the first `};`
\* that follows its start.
C15_TopLevelOnly ==
    /\ SearchDone /\ haystack \in CompoundNested(crate_name) \cup AfterGroupEnd(crate_name)
          => ~sink_found
    /\ \A i \in MatchStarts(make_multiline_regexp(crate_name), haystack, 1) :
          Ends(make_multiline_regexp(crate_name), haystack, i)
              = { FirstGroupEnd(haystack, i) }

FirstMatch(t) ==
    Min({ i \in DOMAIN paths : paths[i].readable
                               /\ search_path(dependencies[t][2], paths[i]) = "true" }
            \cup { Len(paths) + 1 })

\* C17: while the files of a package are scanned for one dependency, a file
\* on which search_path returns an error counts as "not found" and the scan
\* goes on with the next file; the scan stops at the first file whose search
\* returns true; and find_unused still returns Ok.
C17_ScanErrorsSkipped ==
    /\ \A t \in Tasks :
          /\ pos[t] <= FirstMatch(t)
          /\ found_once[t] => pos[t] = FirstMatch(t) /\ pos[t] <= Len(paths)
          /\ task[t] = "Done" => (found_once[t] <=> FirstMatch(t) <= Len(paths))
    /\ pc = "returned" /\ Tasks # {} => ret = "OkSome"

C17_Witness ==
    /\ ReturnedSome
    /\ Len(paths) = 2
    /\ ~paths[1].readable
    /\ \E t \in Tasks : found_once[t] /\ pos[t] = 2
    /\ \E t \in Tasks : ~found_once[t] /\ pos[t] = 3

(***************************************************************************)
(* Properties of collect_paths.                                            *)
(***************************************************************************)
\* The paths a manifest declares: that of the library and those of the
\* binaries, benches, tests and examples.
DeclaredPaths(t) == { p \in { t.lib } \cup t.products : p # NoName }

UnderSomeRoot(path, roots) == \E root \in roots : starts_with(path, root)

\* C18: collect_paths returns exactly the regular files with the extension
\* `rs` found below the roots, the roots being the parent directories of the
\* declared library path and of every declared product path, and the single
\* root src/ being used iff no target declares a path.
C18_SourceFilesUnderRoots ==
    collect_pc = "returned" =>
        /\ root_paths = (IF DeclaredPaths(targets) = {} THEN { << << "s", "r", "c" >> >> }
                         ELSE { pop(p) : p \in DeclaredPaths(targets) })
        /\ Range(found_paths)
              = { e.path : e \in { f \in Range(tree) : /\ f.type = "file"
                                                /\ extension(f.path) = << "r", "s" >>
                                                /\ UnderSomeRoot(f.path, root_paths) } }

C18_Witness ==
    /\ collect_pc = "returned"
    /\ tree = FullTree
    /\ targets = Targets(NoName, { NoName, << << "b", "e", "n", "c", "h", "e", "s" >>, << "b", "e", "n", "c", "h", ".", "r", "s" >> >> })
    /\ found_paths = << << << "b", "e", "n", "c", "h", "e", "s" >>, << "b", "e", "n", "c", "h", ".", "r", "s" >> >> >>

(***************************************************************************)
(* Properties of the fix of a manifest.                                    *)
(***************************************************************************)
\* C19: remove_dependencies deletes each requested name from every
\* dependency table in which it appears, the top-level tables and those of
\* every key under `target`: on success the manifest written holds the name
\* in no dependency table.
C19_RemovedFromEveryTable ==
    fix_pc = "written" =>
        \A i \in DOMAIN to_remove : \A d \in manifest_file : d.key # to_remove[i]

\* The names of the request that no searched table of the manifest holds.
NotInSearchedTables ==
    { i \in DOMAIN to_remove :
        ~\E d \in manifest_before : /\ d.key = to_remove[i]
                                    /\ TableOf(d) \in get_table_deps(manifest_before) }

\* C20: remove_dependencies fails iff no searched table holds one of the
\* requested names, with an error that names it and lists the searched
\* tables; when it fails the manifest on disk is left as it was, also for
\* the names processed before the failing one.
C20_FailsIffNotFound ==
    /\ fix_pc \in { "failed", "written", "panicked" }
          => (fix_pc = "failed" <=> NotInSearchedTables # {})
    /\ fix_pc = "failed"
          => /\ fix_error.dep = to_remove[Min(NotInSearchedTables)]
             /\ fix_error.tables = get_table_deps(manifest_before)
             /\ manifest_file = manifest_before
    /\ fix_pc \in { "read", "remove" } => manifest_file = manifest_before

C20_Witness ==
    /\ fix_pc = "failed"
    /\ dep_idx = 2
    /\ document # manifest_before
    /\ manifest_file = manifest_before
    /\ fix_error.dep = tracing
    /\ fix_error.tables = { << NoName, "normal" >>, << cfg_unix, "build" >> }

\* C21: when the process has ended without a failure, every dependency in
\* the ignored_used list of every package find_unused returned an analysis
\* for has been reported by a "marked as ignored, but is actually used"
\* warning for that manifest, whether the unused list of the package is
\* empty or not.
C21_IgnoredUsedWarned ==
    (run_pc = "exited" /\ run_result \in { "Ok(true)", "Ok(false)" })
        => \A a \in analysed :
              a.ret = "OkSome"
                  => \A i \in DOMAIN a.ignored_used :
                        \E w \in DOMAIN warned :
                            warned[w] = [path |-> a.path, dep |-> a.ignored_used[i]]

(***************************************************************************)
(* Properties of the manifest discovery.                                   *)
(***************************************************************************)
DiscoveryOk == discover_pc = "returned" /\ walk_result.ret = "Ok"

Discovered == Range(walk_result.paths)

\* The directories a path lies under, from the given depth on.
DirsAbove(path, depth) == { SubSeq(path, 1, k) : k \in depth..(Len(path) - 1) }

\* The path, or a directory above it from the given depth on, has a name an
\* ignore rule in force excludes.
ExcludedFrom(path, depth) ==
    \E q \in DirsAbove(path, depth) \cup { path } :
        q # << >> /\ ignored_by_rule(q, standard_filters(options), repository, start_path)

OnlyManifests == \A p \in Discovered : p[Len(p)] = << "C", "a", "r", "g", "o", ".", "t", "o", "m", "l" >>

AllFiltersOff ==
    /\ ~options.skip_target_dir
    /\ ~standard_filters(options).hidden
    /\ ~standard_filters(options).ignore
    /\ ~standard_filters(options).git_ignore

AllManifestsBelowStart ==
    \A i \in DOMAIN WorkTree :
        (starts_with(WorkTree[i].path, start_path)
         /\ entry_file_name(WorkTree[i].path) = << "C", "a", "r", "g", "o", ".", "t", "o", "m", "l" >>)
            => WorkTree[i].path \in Discovered

\* C22 as stated: a successful discovery returns only entries named
\* Cargo.toml; with skip_target_dir none of them lies under a directory
\* named target; with the ignore files respected none of them is excluded by
\* an ignore rule; with every filter off all the manifests below the input
\* path are returned.
C22_AsStated ==
    DiscoveryOk =>
        /\ OnlyManifests
        /\ options.skip_target_dir
              => \A p \in Discovered : \A d \in DirsAbove(p, 1) : d[Len(d)] # << "t", "a", "r", "g", "e", "t" >>
        /\ options.respect_ignore_files => \A p \in Discovered : ~ExcludedFrom(p, 1)
        /\ AllFiltersOff => AllManifestsBelowStart

\* C22 (amended): the same, where the directories named target and the
\* names the ignore rules exclude are those the walk meets below the input
\* path; the input path itself and what lies above it are never filtered.
C22_DiscoveredManifests ==
    DiscoveryOk =>
        /\ OnlyManifests
        /\ options.skip_target_dir
              => \A p \in Discovered :
                    \A d \in DirsAbove(p, Len(start_path) + 1) : d[Len(d)] # << "t", "a", "r", "g", "e", "t" >>
        /\ options.respect_ignore_files
              => \A p \in Discovered : ~ExcludedFrom(p, Len(start_path) + 1)
        /\ AllFiltersOff => AllManifestsBelowStart

C22_Witness ==
    /\ DiscoveryOk
    /\ options = CollectPathOptions(TRUE, TRUE, "None")
    /\ start_path = << >>
    /\ repository.in_git
    /\ walk_result.paths = << << << "C", "a", "r", "g", "o", ".", "t", "o", "m", "l" >> >>, << << "s", "u", "b" >>, << "C", "a", "r", "g", "o", ".", "t", "o", "m", "l" >> >> >>

(***************************************************************************)
(* Properties of the calls made on one Search.                             *)
(***************************************************************************)
\* The line matcher finds a line of the text that is no comment.
LineFinds(N, text) ==
    \E i \in DOMAIN split_lines(text) :
        /\ is_match(make_line_regexp(N), split_lines(text)[i])
        /\ matched(split_lines(text)[i])

\* The sink accepted a region during the multi-line phase of the call.
MultilineFound ==
    \E i, j \in DOMAIN call.trace :
        i < j /\ call.trace[i] = "multiline" /\ call.trace[j] = "hit"

\* C23: in every call find_unused makes on one Search, sink.found is false
\* when the call begins; the call returns true iff the line matcher finds a
\* line of that file that is no comment or, when it finds none, the
\* multi-line matcher finds a region; and the multi-line phase runs only
\* when the line phase went through the file without a match.
C23_CallsIndependent ==
    (search_pc = "done" /\ search_ret # "Err") =>
        /\ ~call.found_at_start
        /\ search_ret = "true" <=> (LineFinds(crate_name, haystack) \/ MultilineFound)
        /\ "multiline" \in Range(call.trace)
              => /\ ~LineFinds(crate_name, haystack)
                 /\ call.trace[2] = "multiline"

\* The last call of a list is on a file without a usage: both phases run
\* and it returns false.
C23_Witness ==
    /\ search_pc = "done"
    /\ rest_paths = << >>
    /\ haystack = << "f", "n", " ", "m", "a", "i", "n", "(", ")", " ", "{", "}" >>
    /\ search_ret = "false"
    /\ call.trace = << "line", "multiline" >>

\* C24: a path `::N::Item` is reported as a usage of N wherever it stands in
\* a line, the `::` not coming after a word character, also when it is the
\* first text of the line.
C24_LeadingSeparatorFound ==
    SearchDone /\ haystack \in LeadingSeparatorPaths(crate_name) => sink_found

\* C25: find_unused ends with Ok(Some(analysis)), with Ok(None) or with an
\* Err, whatever the manifest holds: never with a panic.
C25_ThreeOutcomes ==
    pc = "returned" => ret \in { "OkSome", "OkNone", "Err" }

(***************************************************************************)
(* Properties of the walk over the parent directories.                     *)
(***************************************************************************)
\* The strict ancestors of the package directory whose Cargo.toml parses and
\* declares a workspace.
WorkspaceAncestors ==
    { d \in 0..(PackageDepth(tree_manifests) - 1) :
        /\ tree_manifests[d].read = "ok"
        /\ tree_manifests[d].workspace.found }

\* C26: for every manifest path, absolute or relative, the workspace ignore
\* list get_full_manifest returns is the `ignored` list of the nearest
\* strict ancestor directory of the package whose Cargo.toml declares a
\* workspace, and is empty when no ancestor declares one; a missing or
\* unparsable ancestor manifest is passed over without an error.
C26_NearestWorkspace ==
    (parents_pc = "returned" /\ full_manifest.ret = "Ok") =>
        full_manifest.workspace_ignored
            = (IF WorkspaceAncestors = {} THEN {}
               ELSE tree_manifests[Max(WorkspaceAncestors)].workspace.ignored)

====
